---- MODULE Spec2Model ----
(***************************************************************************)
(* gltf-viewer: the two camera controllers (utils/cameras.cpp) and the     *)
(* application's run() (ViewerApplication.cpp): start-up, the offscreen    *)
(* render, the interactive frame loop, and the scene traversal that issues *)
(* the draw calls.                                                         *)
(*                                                                         *)
(* Numbers.  The controllers compute in IEEE-754 binary32 (C++ float).     *)
(* A float is modelled exactly as a pair m * 2^e with m an odd integer     *)
(* (or 0), |m| < 2^24; every arithmetic operation rounds its exact result  *)
(* to 24 significant bits, ties to even, as the hardware does.  Exponent   *)
(* range (overflow, subnormals) and the sign of zero are not modelled; NaN *)
(* is.  Cursor positions are whole pixels.                                 *)
(***************************************************************************)
EXTENDS Integers, Sequences, FiniteSets, TLC

(***************************************************************************)
(* binary32 arithmetic                                                     *)
(***************************************************************************)
MantBits == 24

RECURSIVE Pow2(_)
Pow2(n) == IF n <= 0 THEN 1 ELSE 2 * Pow2(n - 1)

RECURSIVE BitLen(_)
BitLen(a) == IF a <= 0 THEN 0 ELSE 1 + BitLen(a \div 2)

Abs(i) == IF i < 0 THEN -i ELSE i

Zero == [m |-> 0, e |-> 0]

NaN == [m |-> 0, e |-> 1]

IsNaN(x) == x = NaN

\* the unique representation of m * 2^e: m odd, or zero
RECURSIVE Canon(_, _)
Canon(m, e) ==
  IF m = 0 THEN Zero
  ELSE IF m % 2 = 0 THEN Canon(m \div 2, e + 1)
  ELSE [m |-> m, e |-> e]

FromInt(n) == Canon(n, 0)

One == FromInt(1)

\* round the magnitude (a + f) * 2^e to MantBits significant bits, ties to
\* even; f is a fraction in [0,1) that is non-zero exactly when sticky
RoundMag(a, sticky, e) ==
  LET Up(q, r, half) == \/ r > half
                        \/ r = half /\ sticky
                        \/ r = half /\ ~sticky /\ q % 2 = 1
      Cut(k, q, r) == [m |-> IF Up(q, r, Pow2(k - 1)) THEN q + 1 ELSE q, e |-> e + k]
      Drop(k) == Cut(k, a \div Pow2(k), a % Pow2(k))
      Bits(n) == IF n <= MantBits THEN [m |-> a, e |-> e] ELSE Drop(n - MantBits)
  IN  Bits(BitLen(a))

\* the float nearest to sign * (a + f) * 2^e
Round(neg, a, sticky, e) ==
  LET Signed(r) == Canon(IF neg THEN -r.m ELSE r.m, r.e)
  IN  Signed(RoundMag(a, sticky, e))

\* m scaled to exactly MantBits bits (exact)
Normal(x) ==
  LET Scaled(s) == [m |-> x.m * Pow2(s), e |-> x.e - s]
  IN  Scaled(MantBits - BitLen(Abs(x.m)))

FNeg(x) == IF IsNaN(x) THEN NaN ELSE [m |-> -x.m, e |-> x.e]

\* x + y, correctly rounded
FAdd(x, y) ==
  IF IsNaN(x) \/ IsNaN(y) THEN NaN
  ELSE IF x.m = 0 THEN y
  ELSE IF y.m = 0 THEN x
  ELSE LET \* the sum s + f at exponent e, f in [0,1) non-zero iff sticky
           Sum(s, sticky, e) ==
             IF s = 0 /\ ~sticky THEN Zero
             ELSE Round(s < 0, IF s >= 0 THEN s ELSE IF sticky THEN -s - 1 ELSE -s,
                        sticky, e)
           \* a shifted left by g guard bits, b right by sh bits
           Aligned(a, b, g, sh) ==
             Sum(a.m * Pow2(g) + (b.m \div Pow2(sh)), b.m % Pow2(sh) # 0, a.e - g)
           \* a has the larger exponent, by d: six guard bits are kept exactly,
           \* and a b wholly below them only sets the sticky bit
           Apart(a, b, d) ==
             Aligned(a, b, IF d < 6 THEN d ELSE 6,
                     IF d < 6 THEN 0 ELSE IF d > MantBits + 7 THEN MantBits + 1 ELSE d - 6)
           Ordered(nx, ny) ==
             Apart(IF nx.e >= ny.e THEN nx ELSE ny, IF nx.e >= ny.e THEN ny ELSE nx,
                   Abs(nx.e - ny.e))
       IN  Ordered(Normal(x), Normal(y))

FSub(x, y) == FAdd(x, FNeg(y))

\* x * y, correctly rounded (the exact product must fit TLC's integers)
FMul(x, y) ==
  IF IsNaN(x) \/ IsNaN(y) THEN NaN
  ELSE IF x.m = 0 \/ y.m = 0 THEN Zero
  ELSE Round((x.m < 0) # (y.m < 0), Abs(x.m) * Abs(y.m), FALSE, x.e + y.e)

\* x < y (false when either is NaN)
FLt(x, y) == ~IsNaN(x) /\ ~IsNaN(y) /\ FSub(x, y).m < 0

\* glm::min(x, y) == (y < x) ? y : x
FMin(x, y) == IF FLt(y, x) THEN y ELSE x

\* x / y for the quotients the model meets: 0/y, y/y, -y/y and 0/0
FDiv(x, y) ==
  CASE IsNaN(x) \/ IsNaN(y) -> NaN
    [] x.m = 0 /\ y.m = 0   -> NaN
    [] x.m = 0 /\ y.m # 0   -> Zero
    [] x.m # 0 /\ x = y     -> One
    [] x.m # 0 /\ x = FNeg(y) -> FNeg(One)

\* a float as a C++ condition: non-zero
Truthy(x) == IsNaN(x) \/ x.m # 0

(***************************************************************************)
(* glm::vec3 over floats.  The cameras of the model look along a           *)
(* coordinate axis, so every vector whose length is taken has at most one  *)
(* non-zero component and sqrt(x*x + y*y + z*z) is exactly |component|.    *)
(***************************************************************************)
Vec(x, y, z) == <<FromInt(x), FromInt(y), FromInt(z)>>

NaNVec == <<NaN, NaN, NaN>>

HasNaN(v) == IsNaN(v[1]) \/ IsNaN(v[2]) \/ IsNaN(v[3])

VAdd(a, b) == <<FAdd(a[1], b[1]), FAdd(a[2], b[2]), FAdd(a[3], b[3])>>

VSub(a, b) == <<FSub(a[1], b[1]), FSub(a[2], b[2]), FSub(a[3], b[3])>>

VNeg(a) == <<FNeg(a[1]), FNeg(a[2]), FNeg(a[3])>>

VScale(s, a) == <<FMul(s, a[1]), FMul(s, a[2]), FMul(s, a[3])>>

VDiv(a, s) == <<FDiv(a[1], s), FDiv(a[2], s), FDiv(a[3], s)>>

Dot(a, b) == FAdd(FAdd(FMul(a[1], b[1]), FMul(a[2], b[2])), FMul(a[3], b[3]))

Cross(a, b) ==
  << FSub(FMul(a[2], b[3]), FMul(b[2], a[3])),
     FSub(FMul(a[3], b[1]), FMul(b[3], a[1])),
     FSub(FMul(a[1], b[2]), FMul(b[1], a[2])) >>

FAbs(x) == IF IsNaN(x) THEN NaN ELSE [m |-> Abs(x.m), e |-> x.e]

\* glm::length
Length(v) ==
  LET Of(nz) == CASE Cardinality(nz) = 0 -> Zero
                  [] Cardinality(nz) = 1 -> FAbs(v[CHOOSE i \in nz : TRUE])
  IN  IF HasNaN(v) THEN NaN ELSE Of({i \in 1..3 : v[i].m # 0})

\* glm::normalize
Normalize(v) == VDiv(v, Length(v))

\* glm::rotate(mat4(1), angle, axis) applied to the direction v.  Angles are
\* quantised to quarter turns: a non-zero angle turns v by a quarter turn
\* about the (normalised) axis in the direction of the angle's sign.
Rotate(angle, axis, v) ==
  LET Turn(par, crs) == VAdd(par, IF angle.m > 0 THEN crs ELSE VNeg(crs))
      About(a) == IF IsNaN(angle) \/ HasNaN(a) \/ HasNaN(v) THEN NaNVec
                  ELSE IF angle.m = 0 THEN v
                  ELSE Turn(VScale(Dot(a, v), a), Cross(a, v))
  IN  About(Normalize(axis))

(***************************************************************************)
(* Camera (utils/cameras.hpp): eye, center, up and the moves the           *)
(* controllers call.                                                       *)
(***************************************************************************)
Camera(e, c, u) == [eye |-> e, center |-> c, up |-> u]

front(cam) == Normalize(VSub(cam.center, cam.eye))

left(cam) == Normalize(Cross(cam.up, front(cam)))

MoveLocal(cam, truckLeft, pedestalUp, dollyIn) ==
  LET By(t) == Camera(VAdd(cam.eye, t), VAdd(cam.center, t), cam.up)
      Along(f, l) == By(VAdd(VAdd(VScale(truckLeft, l), VScale(pedestalUp, cam.up)),
                             VScale(dollyIn, f)))
      Facing(f) == Along(f, Normalize(Cross(cam.up, f)))
  IN  Facing(front(cam))

RotateLocal(cam, rollRight, tiltDown, panLeft) ==
  LET Pan(fr1, up2) == Camera(cam.eye, VAdd(cam.eye, Rotate(panLeft, up2, fr1)), up2)
      Tilt(fr, up1, lft) == Pan(Rotate(tiltDown, lft, fr), Rotate(tiltDown, lft, up1))
      Roll(fr, up1) == Tilt(fr, up1, Cross(up1, fr))
      Facing(fr) == Roll(fr, Rotate(rollRight, fr, cam.up))
  IN  Facing(VSub(cam.center, cam.eye))

RotateWorld(cam, radians, axis) ==
  Camera(cam.eye,
         VAdd(cam.eye, Rotate(radians, axis, VSub(cam.center, cam.eye))),
         Rotate(radians, axis, cam.up))

\* one call on the controller's m_camera
Call(cam, call) ==
  CASE call.fn = "moveLocal"   -> MoveLocal(cam, call.a, call.b, call.c)
    [] call.fn = "rotateLocal" -> RotateLocal(cam, call.a, call.b, call.c)
    [] call.fn = "rotateWorld" -> RotateWorld(cam, call.a, call.axis)
    [] call.fn = "Camera"      -> Camera(call.eye, call.center, call.up)

\* the camera after a sequence of calls, in order
RECURSIVE Calls(_, _)
Calls(cam, calls) ==
  IF calls = <<>> THEN cam ELSE Calls(Call(cam, Head(calls)), Tail(calls))

(***************************************************************************)
(* The camera controllers (utils/cameras.cpp).                             *)
(*                                                                         *)
(* A controller is [type, camera, pressed, last, speed]: the variant, the  *)
(* Camera it owns, m_LeftButtonPressed / m_MiddleButtonPressed,            *)
(* m_LastCursorPosition and m_fSpeed.  The window state the GLFW queries   *)
(* read is [left, middle, cursor, keys].                                   *)
(***************************************************************************)
\* 0.01f, 0.001f and 1e-4f as binary32
F001 == [m |-> 5368709, e |-> -29]

F0001 == [m |-> 8589935, e |-> -33]

F1em4 == [m |-> 13743895, e |-> -37]

worldUpAxis == <<Zero, One, Zero>>

Controller(type, cam, speed) ==
  [type |-> type, camera |-> cam, pressed |-> FALSE, last |-> <<0, 0>>, speed |-> speed]

\* CursorDelta without the snapshot taken on the press edge
CursorDeltaNoSnapshot(pressed, last, held, cursor) ==
  [pressed |-> held,
   last    |-> IF held THEN cursor ELSE last,
   delta   |-> IF held THEN <<cursor[1] - last[1], cursor[2] - last[2]>> ELSE <<0, 0>>]

\* the press/release edge and the cursor delta of one update call
CursorDelta(pressed, last, held, cursor) ==
  LET Sampled(pressed1, last1) ==
        [pressed |-> pressed1,
         last    |-> IF pressed1 THEN cursor ELSE last1,
         delta   |-> IF pressed1 THEN <<cursor[1] - last1[1], cursor[2] - last1[2]>>
                     ELSE <<0, 0>>]
  IN  Sampled(IF held /\ ~pressed THEN TRUE
              ELSE IF ~held /\ pressed THEN FALSE
              ELSE pressed,
              IF held /\ ~pressed THEN cursor ELSE last)

FirstPersonCursor(c, w) == CursorDelta(c.pressed, c.last, w.left, w.cursor)

TrackballCursor(c, w) == CursorDelta(c.pressed, c.last, w.middle, w.cursor)

\* x += d (or x -= d) when the key is held
Acc(x, key, w, d) == IF key \in w.keys THEN FAdd(x, d) ELSE x

\* FirstPersonQuantities with the roll scaled by speed and elapsed time as
\* the translations are
FirstPersonQuantitiesTimedRoll(c, w, delta, elapsedTime) ==
  LET Keys(step) ==
        [truckLeft      |-> Acc(Acc(Zero, "A", w, step), "D", w, FNeg(step)),
         pedestalUp     |-> Acc(Acc(Zero, "UP", w, step), "DOWN", w, FNeg(step)),
         dollyIn        |-> Acc(Acc(Zero, "W", w, step), "S", w, FNeg(step)),
         rollRightAngle |-> Acc(Acc(Zero, "Q", w, FNeg(step)), "E", w, step),
         tiltDownAngle  |-> FMul(F001, FromInt(delta[2])),
         panLeftAngle   |-> FMul(FNeg(F001), FromInt(delta[1]))]
  IN  Keys(FMul(c.speed, elapsedTime))

\* the six quantities FirstPersonCameraController::update accumulates
FirstPersonQuantities(c, w, delta, elapsedTime) ==
  LET Keys(step) ==
        [truckLeft      |-> Acc(Acc(Zero, "A", w, step), "D", w, FNeg(step)),
         pedestalUp     |-> Acc(Acc(Zero, "UP", w, step), "DOWN", w, FNeg(step)),
         dollyIn        |-> Acc(Acc(Zero, "W", w, step), "S", w, FNeg(step)),
         rollRightAngle |-> Acc(Acc(Zero, "Q", w, FNeg(F0001)), "E", w, F0001),
         tiltDownAngle  |-> FMul(F001, FromInt(delta[2])),
         panLeftAngle   |-> FMul(FNeg(F001), FromInt(delta[1]))]
  IN  Keys(FMul(c.speed, elapsedTime))

\* FirstPersonHasMoved without its test: every call counts as motion
FirstPersonAlwaysMoved(q) == TRUE

FirstPersonHasMoved(q) ==
  \/ Truthy(q.truckLeft) \/ Truthy(q.pedestalUp) \/ Truthy(q.dollyIn)
  \/ Truthy(q.panLeftAngle) \/ Truthy(q.tiltDownAngle) \/ Truthy(q.rollRightAngle)

\* FirstPersonCalls with the two rotations exchanged
FirstPersonCallsPanFirst(q) ==
  << [fn |-> "moveLocal", a |-> q.truckLeft, b |-> q.pedestalUp, c |-> q.dollyIn],
     [fn |-> "rotateWorld", a |-> q.panLeftAngle, axis |-> worldUpAxis],
     [fn |-> "rotateLocal", a |-> q.rollRightAngle, b |-> q.tiltDownAngle, c |-> Zero] >>

\* the calls update makes on m_camera once it has moved, in order
FirstPersonCalls(q) ==
  << [fn |-> "moveLocal", a |-> q.truckLeft, b |-> q.pedestalUp, c |-> q.dollyIn],
     [fn |-> "rotateLocal", a |-> q.rollRightAngle, b |-> q.tiltDownAngle, c |-> Zero],
     [fn |-> "rotateWorld", a |-> q.panLeftAngle, axis |-> worldUpAxis] >>

\* Result of an update that returns false whatever it did to the camera
ResultAlwaysFalse(c, cur, ret, op, calls) ==
  [cur |-> cur, ret |-> FALSE, delta |-> cur.delta, op |-> op, calls |-> calls]

\* what one update call does: the cursor sample, the value returned, the
\* branch taken and the calls made on m_camera, in order
Result(c, cur, ret, op, calls) ==
  [cur |-> cur, ret |-> ret, delta |-> cur.delta, op |-> op, calls |-> calls]

FirstPersonUpdate(c, w, elapsedTime) ==
  LET Moved(cur, q) ==
        IF ~FirstPersonHasMoved(q) THEN Result(c, cur, FALSE, "none", <<>>)
        ELSE Result(c, cur, TRUE, "move", FirstPersonCalls(q))
      Sampled(cur) == Moved(cur, FirstPersonQuantities(c, w, cur.delta, elapsedTime))
  IN  Sampled(FirstPersonCursor(c, w))

\* TrackballHasMoved without its test: every call counts as motion
TrackballAlwaysMoved(horizontalMovement, verticalMovement) == TRUE

TrackballHasMoved(horizontalMovement, verticalMovement) ==
  Truthy(horizontalMovement) \/ Truthy(verticalMovement)

\* TrackballMode with the zoom key tested before the pan key
TrackballModeZoomFirst(w) ==
  IF "LEFT_CONTROL" \in w.keys THEN "zoom"
  ELSE IF "LEFT_SHIFT" \in w.keys THEN "pan"
  ELSE "orbit"

\* the branch the modifier keys select
TrackballMode(w) ==
  IF "LEFT_SHIFT" \in w.keys THEN "pan"
  ELSE IF "LEFT_CONTROL" \in w.keys THEN "zoom"
  ELSE "orbit"

\* TrackballPan moving along the view direction instead of sideways
TrackballPanDolly(cam, horizontalMovement) ==
  << [fn |-> "moveLocal", a |-> Zero, b |-> Zero, c |-> horizontalMovement] >>

TrackballPan(cam, horizontalMovement) ==
  << [fn |-> "moveLocal", a |-> horizontalMovement, b |-> Zero, c |-> Zero] >>

\* TrackballZoom carrying the target along with the eye
TrackballZoomDolly(cam, horizontalMovement) ==
  << [fn |-> "moveLocal", a |-> Zero, b |-> Zero, c |-> horizontalMovement] >>

\* the zoom step along the view vector, capped short of the target
TrackballZoom(cam, horizontalMovement) ==
  LET Rebuilt(newEye) ==
        << [fn |-> "Camera", eye |-> newEye, center |-> cam.center, up |-> worldUpAxis] >>
      Capped(viewLength) ==
        IF FLt(Zero, horizontalMovement)
          THEN FMin(horizontalMovement, FSub(viewLength, F1em4))
          ELSE horizontalMovement
      Along(viewVector, viewLength) ==
        Rebuilt(VAdd(cam.eye, VScale(Capped(viewLength), VDiv(viewVector, viewLength))))
      View(viewVector) == Along(viewVector, Length(viewVector))
  IN  View(VSub(cam.center, cam.eye))

\* the orbit of eye about center: pitch about left, then yaw about world up
TrackballOrbit(cam, horizontalMovement, verticalMovement) ==
  << [fn |-> "Camera",
      eye |-> VAdd(cam.center,
                   Rotate(FNeg(horizontalMovement), worldUpAxis,
                          Rotate(verticalMovement, left(cam),
                                 VSub(cam.eye, cam.center)))),
      center |-> cam.center,
      up |-> worldUpAxis] >>

\* ZoomIdle without its test: the zoom branch always moves the eye
ZoomIdleNever(horizontalMovement) == FALSE

\* the zoom branch's early return: if (horizontalMovement == 0.f) return false
ZoomIdle(horizontalMovement) == horizontalMovement = Zero

TrackballUpdate(c, w, elapsedTime) ==
  LET Moved(cur, horizontalMovement, verticalMovement, mode) ==
        IF ~TrackballHasMoved(horizontalMovement, verticalMovement)
          THEN Result(c, cur, FALSE, "none", <<>>)
        ELSE IF mode = "pan"
          THEN Result(c, cur, TRUE, "pan", TrackballPan(c.camera, horizontalMovement))
        ELSE IF mode = "zoom"
          THEN IF ZoomIdle(horizontalMovement)
                 THEN Result(c, cur, FALSE, "none", <<>>)
                 ELSE Result(c, cur, TRUE, "zoom",
                             TrackballZoom(c.camera, horizontalMovement))
        ELSE Result(c, cur, TRUE, "orbit",
                    TrackballOrbit(c.camera, horizontalMovement, verticalMovement))
      Sampled(cur) == Moved(cur, FMul(F001, FromInt(cur.delta[1])),
                            FMul(F001, FromInt(cur.delta[2])), TrackballMode(w))
  IN  Sampled(TrackballCursor(c, w))

\* cameraController->update: the virtual call
\* the controller once an update call has run: the cursor state it stored
\* and its camera after the calls it made
After(c, r) ==
  [c EXCEPT !.pressed = r.cur.pressed, !.last = r.cur.last,
            !.camera = Calls(c.camera, r.calls)]

\* cameraController->update(elapsedTime), dispatched on the controller's type
Update(c, w, elapsedTime) ==
  LET Done(r) ==
        [ctrl |-> After(c, r), ret |-> r.ret, delta |-> r.delta, op |-> r.op,
         calls |-> r.calls]
  IN  Done(IF c.type = "Trackball" THEN TrackballUpdate(c, w, elapsedTime)
           ELSE FirstPersonUpdate(c, w, elapsedTime))

(***************************************************************************)
(* The scene (tinygltf::Model) and glm::mat4.  Node matrices have small    *)
(* integer entries, so their products are exact.  Indices are 0-based as   *)
(* in the file; a missing mesh, index accessor or default scene is -1.     *)
(***************************************************************************)
At(seq, i) == seq[i + 1]

Row(x, y, z, w) == <<x, y, z, w>>

Identity == <<Row(1,0,0,0), Row(0,1,0,0), Row(0,0,1,0), Row(0,0,0,1)>>

Translation(x, y, z) == <<Row(1,0,0,x), Row(0,1,0,y), Row(0,0,1,z), Row(0,0,0,1)>>

Scaling(k) == <<Row(k,0,0,0), Row(0,k,0,0), Row(0,0,k,0), Row(0,0,0,1)>>

MatMul(a, b) ==
  [i \in 1..4 |-> [j \in 1..4 |->
     a[i][1] * b[1][j] + a[i][2] * b[2][j] + a[i][3] * b[3][j] + a[i][4] * b[4][j]]]

Node(matrix, mesh, children) == [matrix |-> matrix, mesh |-> mesh, children |-> children]

Primitive(attributes, indices, mode) ==
  [attributes |-> attributes, indices |-> indices, mode |-> mode]

Accessor(bufferView, byteOffset, componentType, count) ==
  [bufferView |-> bufferView, byteOffset |-> byteOffset,
   componentType |-> componentType, count |-> count]

BufferView(buffer, byteOffset, byteStride, target) ==
  [buffer |-> buffer, byteOffset |-> byteOffset, byteStride |-> byteStride,
   target |-> target]

\* the keys of primitive.attributes in the order std::map iterates them
AttributeOrder == <<"COLOR_0", "NORMAL", "POSITION", "TANGENT", "TEXCOORD_0">>

\* (*begin(primitive.attributes)).second
FirstAttribute(primitive) ==
  LET i == CHOOSE i \in 1..Len(AttributeOrder) :
             /\ AttributeOrder[i] \in DOMAIN primitive.attributes
             /\ \A j \in 1..(i - 1) : AttributeOrder[j] \notin DOMAIN primitive.attributes
  IN  primitive.attributes[AttributeOrder[i]]

\* getLocalToWorldMatrix(node, parentMatrix)
getLocalToWorldMatrix(node, parentMatrix) == MatMul(parentMatrix, node.matrix)

GL_ARRAY_BUFFER == 34962

GL_ELEMENT_ARRAY_BUFFER == 34963

GL_FLOAT == 5126

GL_UNSIGNED_SHORT == 5123

GL_TRIANGLES == 4

GL_LINES == 1

\* The scenes the model loads.  SceneTree: two trees; node 0 > 1 > 2 are the
\* nested translations (1,0,0), (0,1,0), (0,0,1); node 6 is node 0's second
\* child; node 3 scales by 2 above node 4; node 5 is in the file but in no
\* scene.  Mesh 0 has one indexed primitive, mesh 1 a non-indexed and an
\* indexed one.  The second buffer is referenced by no buffer view.
SceneTree ==
  [defaultScene |-> 0,
   scenes       |-> << <<0, 3>> >>,
   nodes        |-> << Node(Translation(1,0,0), -1, <<1, 6>>),
                       Node(Translation(0,1,0), 0, <<2>>),
                       Node(Translation(0,0,1), 1, <<>>),
                       Node(Scaling(2), 0, <<4>>),
                       Node(Translation(1,0,0), -1, <<>>),
                       Node(Translation(5,5,5), 1, <<>>),
                       Node(Translation(0,0,2), 0, <<>>) >>,
   meshes       |-> << << Primitive([POSITION |-> 0, NORMAL |-> 1], 2, GL_TRIANGLES) >>,
                       << Primitive([POSITION |-> 3, TEXCOORD_0 |-> 4], -1, GL_LINES),
                          Primitive([POSITION |-> 0], 5, GL_TRIANGLES) >> >>,
   accessors    |-> << Accessor(0, 0, GL_FLOAT, 4),
                       Accessor(0, 48, GL_FLOAT, 4),
                       Accessor(1, 0, GL_UNSIGNED_SHORT, 6),
                       Accessor(0, 96, GL_FLOAT, 2),
                       Accessor(0, 120, GL_FLOAT, 2),
                       Accessor(1, 12, GL_UNSIGNED_SHORT, 3) >>,
   bufferViews  |-> << BufferView(0, 0, 12, GL_ARRAY_BUFFER),
                       BufferView(0, 136, 0, GL_ELEMENT_ARRAY_BUFFER) >>,
   buffers      |-> << 154, 16 >>,
   bboxMin      |-> Vec(0, 0, 0),
   bboxMax      |-> Vec(4, 0, 0)]

\* SceneNone: the same file without a default scene, its geometry on the
\* segment z = 0..2
SceneNone ==
  [SceneTree EXCEPT !.defaultScene = -1, !.bboxMax = Vec(0, 0, 2)]

Scenes == {SceneTree, SceneNone}

(***************************************************************************)
(* State                                                                   *)
(***************************************************************************)
VARIABLES
  pc,           \* where run() is (or, for the controllers alone, the call's stage)
  args,         \* the constructor's arguments: lookat camera, output path, file
  model,        \* the tinygltf::Model once loaded
  gpu,          \* bufferObjects, vertexArrayObjects, meshToVertexArrays
  ctrl,         \* cameraController
  win,          \* what GLFW reports: buttons, cursor, keys
  gui,          \* what ImGui holds: cameraControllerType, focus, the item clicked
  shouldClose,  \* the window's close flag
  camera,       \* the Camera handed to drawScene
  stack,        \* the drawNode invocations in progress
  trace,        \* the drawNode invocations and GL calls of the current drawScene
  upd,          \* the last update call: its inputs and its result
  hist,         \* what run() has done so far
  ret,          \* run()'s return value
  light         \* the light of run() and the shader's two light uniform locations

vars == <<pc, args, model, gpu, ctrl, win, gui, shouldClose, camera, stack, trace,
          upd, hist, ret, light>>

\* bounds of the model
MaxFrames == 3

MaxCursor == 1

MaxKeysHeld == 2

MaxEvents == 2

MaxDepth == 4

NoCamera == Camera(Vec(0,0,0), Vec(0,0,0), Vec(0,0,0))

NoController == [type |-> "none", camera |-> NoCamera, pressed |-> FALSE,
                 last |-> <<0, 0>>, speed |-> Zero]

NoWindow == [left |-> FALSE, middle |-> FALSE, cursor |-> <<0, 0>>, keys |-> {}]

NoUpdate == [kind |-> "none", ret |-> FALSE, delta |-> <<0, 0>>, op |-> "none",
             calls |-> <<>>, before |-> NoController, after |-> NoController,
             elapsedTime |-> Zero]

NoHist == [phases |-> <<>>, target |-> "none", frames |-> 0, offscreen |-> 0, polls |-> 0,
           updates |-> 0, swaps |-> 0, endCamera |-> NoCamera, escape |-> FALSE,
           released |-> <<0, 0>>]

NoGpu == [bufferObjects |-> <<>>, vertexArrayObjects |-> <<>>,
          meshToVertexArrays |-> <<>>, calls |-> <<>>]

NoModel == [SceneTree EXCEPT !.defaultScene = -1, !.scenes = <<>>, !.nodes = <<>>,
              !.meshes = <<>>, !.accessors = <<>>, !.bufferViews = <<>>,
              !.buffers = <<>>]

\* the record of an update call
Updated(c, elapsedTime, r) ==
  [kind |-> c.type, ret |-> r.ret, delta |-> r.delta, op |-> r.op, calls |-> r.calls,
   before |-> c, after |-> r.ctrl, elapsedTime |-> elapsedTime]

(***************************************************************************)
(* ViewerApplication::run, start-up                                        *)
(***************************************************************************)
Half == [m |-> 1, e |-> -1]

cameraSpeed == [m |-> 9, e |-> -2]     \* 2.25f

\* maxDistance: the length of the scene's diagonal, 100 when that is 0
MaxDistance(m) ==
  LET Positive(l) == IF FLt(Zero, l) THEN l ELSE FromInt(100)
  IN  Positive(Length(VSub(m.bboxMax, m.bboxMin)))

\* the default camera computed from the scene bounds
DefaultCamera(m) ==
  LET From(diag, center, up) ==
        Camera(IF FLt(Zero, diag[3]) THEN VAdd(center, diag)
               ELSE VAdd(center, VScale(FromInt(2), Cross(diag, up))),
               center, up)
  IN  From(VSub(m.bboxMax, m.bboxMin), VScale(Half, VAdd(m.bboxMax, m.bboxMin)),
           Vec(0, 1, 0))

\* FirstController with the scene-bounds camera whatever was supplied
FirstControllerDefault(a, m) ==
  Controller("Trackball", DefaultCamera(m), FMul(cameraSpeed, MaxDistance(m)))

\* the controller run() starts with
FirstController(a, m) ==
  Controller("Trackball",
             IF a.hasUserCamera THEN a.userCamera ELSE DefaultCamera(m),
             FMul(cameraSpeed, MaxDistance(m)))

\* loadGltfFile with run() carrying on whatever the loader returned
loadGltfFileIgnored(a) == TRUE

\* loadGltfFile returns what the loader returned
loadGltfFile(a) == a.loadOk

\* if (!loadGltfFile(model)) return -1
LoadGltfFile ==
  /\ pc = "start"
  /\ IF loadGltfFile(args)
       THEN /\ model' = args.file
            /\ pc' = "camera"
            /\ ret' = ret
       ELSE /\ model' = model
            /\ pc' = "done"
            /\ ret' = -1
  /\ UNCHANGED <<args, gpu, ctrl, win, gui, shouldClose, camera, stack, trace, upd, hist,
            light>>

\* the scene bounds, the projection, the first controller and its camera
SetupCamera ==
  /\ pc = "camera"
  /\ ctrl' = FirstController(args, model)
  /\ pc' = "buffers"
  /\ UNCHANGED <<args, model, gpu, win, gui, shouldClose, camera, stack, trace, upd,
                 hist, ret, light>>

\* BufferObjectCalls reserving the names without filling the buffers
BufferObjectCallsNoStorage(m, bufferObjects) ==
  << [op |-> "glGenBuffers", n |-> Len(bufferObjects), names |-> bufferObjects],
     [op |-> "glBindBuffer", target |-> GL_ARRAY_BUFFER, buffer |-> 0] >>

\* the GL calls of createBufferObjects: the names are reserved, then each
\* buffer of the scene is bound and filled, then the binding point is reset
BufferObjectCalls(m, bufferObjects) ==
  << [op |-> "glGenBuffers", n |-> Len(bufferObjects), names |-> bufferObjects] >>
  \o [k \in 1..(2 * Len(m.buffers)) |->
        IF k % 2 = 1
          THEN [op |-> "glBindBuffer", target |-> GL_ARRAY_BUFFER,
                buffer |-> bufferObjects[(k + 1) \div 2]]
          ELSE [op |-> "glBufferStorage", target |-> GL_ARRAY_BUFFER,
                bufferIdx |-> (k \div 2) - 1, buffer |-> bufferObjects[k \div 2],
                size |-> m.buffers[k \div 2]]]
  \o << [op |-> "glBindBuffer", target |-> GL_ARRAY_BUFFER, buffer |-> 0] >>

\* createBufferObjects: one handle per buffer of the scene
CreateBufferObjects ==
  /\ pc = "buffers"
  /\ LET bufferObjects == [i \in 1..Len(model.buffers) |-> i]
     IN  gpu' = [gpu EXCEPT !.bufferObjects = bufferObjects,
                            !.calls = @ \o BufferObjectCalls(model, bufferObjects)]
  /\ pc' = "vaos"
  /\ UNCHANGED <<args, model, ctrl, win, gui, shouldClose, camera, stack, trace, upd,
                 hist, ret, light>>

\* VaoRanges with every mesh's range starting at the first handle
VaoRangesFromZero(meshes, vaoOffset) ==
  [i \in 1..Len(meshes) |-> [begin |-> 0, count |-> Len(meshes[i])]]

\* the VaoRange pushed for each mesh: where its primitives' handles start
RECURSIVE VaoRanges(_, _)
VaoRanges(meshes, vaoOffset) ==
  IF meshes = <<>> THEN <<>>
  ELSE <<[begin |-> vaoOffset, count |-> Len(Head(meshes))]>>
       \o VaoRanges(Tail(meshes), vaoOffset + Len(Head(meshes)))

RECURSIVE VaoCount(_)
VaoCount(meshes) ==
  IF meshes = <<>> THEN 0 ELSE Len(Head(meshes)) + VaoCount(Tail(meshes))

\* the two assertions of createVertexArrayObjects hold for this primitive
TargetsAsserted(m, primitive) ==
  /\ \A name \in {"POSITION", "NORMAL", "TEXCOORD_0"} \cap DOMAIN primitive.attributes :
       At(m.bufferViews, At(m.accessors, primitive.attributes[name]).bufferView).target
         = GL_ARRAY_BUFFER
  /\ primitive.indices >= 0 =>
       At(m.bufferViews, At(m.accessors, primitive.indices).bufferView).target
         = GL_ELEMENT_ARRAY_BUFFER

\* the GL calls of createVertexArrayObjects that create and select vertex
\* arrays: per mesh, the names for its primitives, then each one bound in
\* turn to be configured; at the end the binding is reset
RECURSIVE VertexArrayCalls(_, _, _)
VertexArrayCalls(meshes, vertexArrayObjects, meshIdx) ==
  IF meshIdx >= Len(meshes) THEN << [op |-> "glBindVertexArray", vao |-> 0] >>
  ELSE LET vaoRange == At(VaoRanges(meshes, 0), meshIdx)
           Vao(pIdx) == At(vertexArrayObjects, vaoRange.begin + pIdx)
       IN  << [op |-> "glGenVertexArrays", mesh |-> meshIdx, n |-> vaoRange.count,
               names |-> [pIdx \in 1..vaoRange.count |-> Vao(pIdx - 1)]] >>
           \o [pIdx \in 1..vaoRange.count |->
                 [op |-> "glBindVertexArray", mesh |-> meshIdx, primitive |-> pIdx - 1,
                  vao |-> Vao(pIdx - 1)]]
           \o VertexArrayCalls(meshes, vertexArrayObjects, meshIdx + 1)

\* createVertexArrayObjects: one handle per primitive of each mesh.  Where
\* an assertion does not hold, a build with assertions aborts there and a
\* build with NDEBUG carries on as if it held
CreateVertexArrayObjects ==
  /\ pc = "vaos"
  /\ \/ /\ LET vertexArrayObjects == [i \in 1..VaoCount(model.meshes) |-> 100 + i]
            IN  gpu' = [gpu EXCEPT
                  !.vertexArrayObjects = vertexArrayObjects,
                  !.meshToVertexArrays = VaoRanges(model.meshes, 0),
                  !.calls = @ \o VertexArrayCalls(model.meshes, vertexArrayObjects, 0)]
        /\ pc' = "ready"
     \/ /\ \E i \in 1..Len(model.meshes) : \E j \in 1..Len(model.meshes[i]) :
             ~TargetsAsserted(model, model.meshes[i][j])
        /\ gpu' = gpu
        /\ pc' = "abort"
  /\ UNCHANGED <<args, model, ctrl, win, gui, shouldClose, camera, stack, trace, upd,
                 hist, ret, light>>

(***************************************************************************)
(* drawScene and drawNode.  The recursion is run on an explicit stack: a   *)
(* frame is a drawNode invocation [node, matrix, kids, next] that has      *)
(* called its first `next` children; the bottom frame is drawScene's loop  *)
(* over the scene's root list.                                             *)
(***************************************************************************)
\* Frame with the list walked from its last entry to its first
FrameLastFirst(node, matrix, kids) ==
  [node |-> node, matrix |-> matrix,
   kids |-> [i \in 1..Len(kids) |-> kids[Len(kids) + 1 - i]], next |-> 0]

Frame(node, matrix, kids) == [node |-> node, matrix |-> matrix, kids |-> kids, next |-> 0]

Top == stack[Len(stack)]

\* the matrix uniforms drawNode sends for a node with a mesh
MatrixUniforms(nodeIdx, modelMatrix) ==
  << [op |-> "glUniformMatrix4fv", location |-> "uModelViewProjMatrix", node |-> nodeIdx,
      value |-> [proj |-> TRUE, view |-> camera, modelMatrix |-> modelMatrix]],
     [op |-> "glUniformMatrix4fv", location |-> "uModelViewMatrix", node |-> nodeIdx,
      value |-> [proj |-> FALSE, view |-> camera, modelMatrix |-> modelMatrix]],
     [op |-> "glUniformMatrix4fv", location |-> "uNormalMatrix", node |-> nodeIdx,
      value |-> [proj |-> FALSE, view |-> camera, modelMatrix |-> modelMatrix]] >>

\* IndexedDraw with the buffer view's own offset left out of byteOffset
IndexedDrawAccessorOffset(m, nodeIdx, pIdx, primitive) ==
  LET accessor == At(m.accessors, primitive.indices)
  IN  [op |-> "glDrawElements", node |-> nodeIdx, primitive |-> pIdx,
       mode |-> primitive.mode, count |-> accessor.count,
       type |-> accessor.componentType, offset |-> accessor.byteOffset]

\* glDrawElements for a primitive with an index accessor
IndexedDraw(m, nodeIdx, pIdx, primitive) ==
  LET accessor   == At(m.accessors, primitive.indices)
      bufferView == At(m.bufferViews, accessor.bufferView)
  IN  [op |-> "glDrawElements", node |-> nodeIdx, primitive |-> pIdx,
       mode |-> primitive.mode, count |-> accessor.count,
       type |-> accessor.componentType,
       offset |-> accessor.byteOffset + bufferView.byteOffset]

\* glDrawArrays for a primitive without one
ArrayDraw(m, nodeIdx, pIdx, primitive) ==
  LET accessor == At(m.accessors, FirstAttribute(primitive))
  IN  [op |-> "glDrawArrays", node |-> nodeIdx, primitive |-> pIdx,
       mode |-> primitive.mode, first |-> 0, count |-> accessor.count]

\* DrawPrimitives stopping after the mesh's first primitive
DrawPrimitivesFirstOnly(m, g, nodeIdx, pIdx) ==
  LET mesh == At(m.meshes, At(m.nodes, nodeIdx).mesh)
      vaoRange == At(g.meshToVertexArrays, At(m.nodes, nodeIdx).mesh)
      primitive == At(mesh, pIdx)
  IN  IF pIdx >= 1 \/ pIdx >= Len(mesh) THEN <<>>
      ELSE << [op |-> "glBindVertexArray", node |-> nodeIdx,
               vao |-> At(g.vertexArrayObjects, vaoRange.begin + pIdx)],
              IF primitive.indices >= 0
                THEN IndexedDraw(m, nodeIdx, pIdx, primitive)
                ELSE ArrayDraw(m, nodeIdx, pIdx, primitive) >>

\* the loop over a mesh's primitives: bind its vertex array, draw it
RECURSIVE DrawPrimitives(_, _, _, _)
DrawPrimitives(m, g, nodeIdx, pIdx) ==
  LET mesh == At(m.meshes, At(m.nodes, nodeIdx).mesh)
      vaoRange == At(g.meshToVertexArrays, At(m.nodes, nodeIdx).mesh)
      primitive == At(mesh, pIdx)
  IN  IF pIdx >= Len(mesh) THEN <<>>
      ELSE << [op |-> "glBindVertexArray", node |-> nodeIdx,
               vao |-> At(g.vertexArrayObjects, vaoRange.begin + pIdx)],
              IF primitive.indices >= 0
                THEN IndexedDraw(m, nodeIdx, pIdx, primitive)
                ELSE ArrayDraw(m, nodeIdx, pIdx, primitive) >>
           \o DrawPrimitives(m, g, nodeIdx, pIdx + 1)

\* what one drawNode invocation emits before it recurses
NodeEvents(m, g, nodeIdx, caller, modelMatrix) ==
  <<[op |-> "drawNode", node |-> nodeIdx, caller |-> caller.node,
     parentMatrix |-> caller.matrix, modelMatrix |-> modelMatrix]>>
  \o (IF At(m.nodes, nodeIdx).mesh >= 0
        THEN MatrixUniforms(nodeIdx, modelMatrix) \o DrawPrimitives(m, g, nodeIdx, 0)
        ELSE <<>>)

\* ChildParentMatrix passing on the matrix the node itself was given
ChildParentMatrixUnchanged(modelMatrix, parentMatrix) == parentMatrix

\* the parent matrix drawNode hands to its children
ChildParentMatrix(modelMatrix, parentMatrix) == modelMatrix

\* RootList taking the file's first scene whatever defaultScene is
RootListFirstScene(m) == IF m.scenes = <<>> THEN <<>> ELSE At(m.scenes, 0)

\* the root list drawScene iterates: the default scene's, if there is one
RootList(m) == IF m.defaultScene >= 0 THEN At(m.scenes, m.defaultScene) ELSE <<>>

\* lightDirection, lightIntensity and lightFromCamera as run() initialises
\* them, and the locations of a shader that has both light uniforms
FirstLight ==
  [lightDirection |-> <<1, 1, 1>>, lightIntensity |-> <<1, 1, 1>>,
   lightFromCamera |-> FALSE,
   lightDirectionLocation |-> 3, lightIntensityLocation |-> 4]

\* LightUniforms sending the world light direction through the view matrix
\* whether or not the light is attached to the camera
LightUniformsWorld(l, cam) ==
  (IF l.lightDirectionLocation >= 0
     THEN << [op |-> "glUniform3f", location |-> "uLightDirection", node |-> -1,
              value |-> [direction |-> l.lightDirection,
                         transform |-> "normalize(viewMatrix * d)", view |-> cam]] >>
     ELSE <<>>)
  \o (IF l.lightIntensityLocation >= 0
        THEN << [op |-> "glUniform3f", location |-> "uLightIntensity", node |-> -1,
                 value |-> [direction |-> l.lightIntensity, transform |-> "none",
                            view |-> NoCamera]] >>
        ELSE <<>>)

\* the light parameters drawScene sends first.  A uniform's value is
\* `transform` applied to `direction`: the three numbers as they are, or
\* the world light direction taken to view space by the camera's view
\* matrix and normalised
LightUniforms(l, cam) ==
  (IF l.lightDirectionLocation >= 0
     THEN << [op |-> "glUniform3f", location |-> "uLightDirection", node |-> -1,
              value |-> IF l.lightFromCamera
                          THEN [direction |-> <<0, 0, 1>>, transform |-> "none",
                                view |-> NoCamera]
                          ELSE [direction |-> l.lightDirection,
                                transform |-> "normalize(viewMatrix * d)",
                                view |-> cam]] >>
     ELSE <<>>)
  \o (IF l.lightIntensityLocation >= 0
        THEN << [op |-> "glUniform3f", location |-> "uLightIntensity", node |-> -1,
                 value |-> [direction |-> l.lightIntensity, transform |-> "none",
                            view |-> NoCamera]] >>
        ELSE <<>>)

\* drawScene(cam), up to its loop over the roots
DrawSceneBegin(cam) ==
  /\ camera' = cam
  /\ trace' = LightUniforms(light, cam)
  /\ stack' = <<Frame(-1, Identity, RootList(model))>>

\* Recursed with the children skipped that an earlier invocation of this
\* drawScene has drawn
RecursedUnvisited(children, events) ==
  SelectSeq(children,
            LAMBDA c : \A i \in 1..Len(events) :
                         ~(events[i].op = "drawNode" /\ events[i].node = c))

\* the children a drawNode invocation calls drawNode on, given the events
\* of the drawScene so far: every child the node lists
Recursed(children, events) == children

\* a call drawNode(nodeIdx, parentMatrix), by drawScene or by a parent node
DrawNodeCall ==
  /\ pc = "drawing"
  /\ stack # <<>>
  /\ Top.next < Len(Top.kids)
  /\ LET nodeIdx     == At(Top.kids, Top.next)
         node        == At(model.nodes, nodeIdx)
         modelMatrix == getLocalToWorldMatrix(node, Top.matrix)
     IN  /\ trace' = trace \o NodeEvents(model, gpu, nodeIdx, Top, modelMatrix)
         /\ stack' = [stack EXCEPT ![Len(stack)].next = @ + 1]
                     \o <<Frame(nodeIdx, ChildParentMatrix(modelMatrix, Top.matrix),
                                Recursed(node.children, trace))>>
  /\ UNCHANGED <<pc, args, model, gpu, ctrl, win, gui, shouldClose, camera, upd, hist,
                 ret, light>>

\* drawNode returns once all its children are drawn
DrawNodeReturn ==
  /\ pc = "drawing"
  /\ Len(stack) > 1
  /\ Top.next = Len(Top.kids)
  /\ stack' = SubSeq(stack, 1, Len(stack) - 1)
  /\ UNCHANGED <<pc, args, model, gpu, ctrl, win, gui, shouldClose, camera, trace, upd,
                 hist, ret, light>>

\* LoopBody with events polled and the controller updated before the draw
LoopBodyPollFirst == <<"poll", "update", "draw", "gui", "swap">>

\* the statements of the loop's body, in the order the body runs them
LoopBody == <<"draw", "gui", "poll", "update", "swap">>

\* the statement after p in the body; after the last, the loop's test
Then(p) ==
  LET At1(i) == IF i = Len(LoopBody) THEN "loop" ELSE LoopBody[i + 1]
  IN  At1(CHOOSE i \in 1..Len(LoopBody) : LoopBody[i] = p)

\* AfterDraw falling through into the loop's body after any drawScene
AfterDrawIntoLoop(h) == Then("draw")

\* where run() goes on after a drawScene: renderToImage's caller saves the
\* image and returns, the loop's body carries on
AfterDraw(h) == IF h.target = "offscreen" THEN "save" ELSE Then("draw")

\* the end of drawScene
DrawSceneEnd ==
  /\ pc = "drawing"
  /\ Len(stack) = 1
  /\ Top.next = Len(Top.kids)
  /\ trace' = Append(trace, [op |-> "glBindVertexArray", node |-> -1, vao |-> 0])
  /\ stack' = <<>>
  /\ hist' = [hist EXCEPT !.phases = Append(@, "draw")]
  /\ pc' = AfterDraw(hist)
  /\ UNCHANGED <<args, model, gpu, ctrl, win, gui, shouldClose, camera, upd, ret, light>>

(***************************************************************************)
(* ViewerApplication::run, the offscreen render and the frame loop         *)
(***************************************************************************)
\* a 2^-6 s frame
FrameTime == [m |-> 1, e |-> -6]

\* what GLFW may report after glfwPollEvents in the application's runs
AppWindows ==
  { [left |-> FALSE, middle |-> FALSE, cursor |-> <<0, 0>>, keys |-> {}],
    [left |-> FALSE, middle |-> TRUE,  cursor |-> <<0, 0>>, keys |-> {}],
    [left |-> FALSE, middle |-> TRUE,  cursor |-> <<100, 0>>, keys |-> {}],
    [left |-> FALSE, middle |-> TRUE,  cursor |-> <<100, 0>>, keys |-> {"LEFT_CONTROL"}],
    [left |-> FALSE, middle |-> TRUE,  cursor |-> <<0, 1>>, keys |-> {"LEFT_SHIFT"}],
    [left |-> TRUE,  middle |-> FALSE, cursor |-> <<0, 0>>, keys |-> {}],
    [left |-> TRUE,  middle |-> FALSE, cursor |-> <<0, 1>>, keys |-> {}],
    [left |-> FALSE, middle |-> FALSE, cursor |-> <<0, 1>>, keys |-> {"W"}] }

\* where run() goes once the scene is on the device: the offscreen render
\* when an output path was given, the frame loop otherwise
RenderOffscreen(a) == a.output

\* renderToImage: drawScene(cameraController->getCamera()) into the image
RenderToImage ==
  /\ pc = "ready"
  /\ RenderOffscreen(args)
  /\ DrawSceneBegin(ctrl.camera)
  /\ hist' = [hist EXCEPT !.target = "offscreen", !.offscreen = @ + 1, !.phases = <<>>]
  /\ pc' = "drawing"
  /\ UNCHANGED <<args, model, gpu, ctrl, win, gui, shouldClose, upd, ret, light>>

\* the image is flipped and written, and run() returns 0
SaveImage ==
  /\ pc = "save"
  /\ pc' = "done"
  /\ ret' = 0
  /\ UNCHANGED <<args, model, gpu, ctrl, win, gui, shouldClose, camera, stack, trace,
                 upd, hist, light>>

\* no output path: run() reaches the loop
EnterLoop ==
  /\ pc = "ready"
  /\ ~RenderOffscreen(args)
  /\ pc' = "loop"
  /\ hist' = [hist EXCEPT !.endCamera = ctrl.camera]
  /\ UNCHANGED <<args, model, gpu, ctrl, win, gui, shouldClose, camera, stack, trace,
                 upd, ret, light>>

\* the loop's test fails: run() returns 0
LoopExit ==
  /\ pc = "loop"
  /\ shouldClose
  /\ pc' = "done"
  /\ ret' = 0
  /\ UNCHANGED <<args, model, gpu, ctrl, win, gui, shouldClose, camera, stack, trace,
                 upd, hist, light>>

\* the loop's test passes: an iteration starts
FrameBegin ==
  /\ pc = "loop"
  /\ ~shouldClose
  /\ hist.frames < MaxFrames
  /\ hist' = [hist EXCEPT !.target = "window", !.frames = @ + 1, !.phases = <<>>]
  /\ pc' = LoopBody[1]
  /\ UNCHANGED <<args, model, gpu, ctrl, win, gui, shouldClose, camera, stack, trace,
                 upd, ret, light>>

\* camera = cameraController->getCamera(); drawScene(camera)
DrawScene ==
  /\ pc = "draw"
  /\ DrawSceneBegin(ctrl.camera)
  /\ pc' = "drawing"
  /\ UNCHANGED <<args, model, gpu, ctrl, win, gui, shouldClose, upd, hist, ret, light>>

\* GuiSelect without the setCamera(currentCamera) that follows construction
GuiSelectFresh(c, item) == Controller(item, NoCamera, c.speed)

\* the controller after the user clicks a camera type: a new controller of
\* that type, given the camera of the one it replaces
GuiSelect(c, item) ==
  [Controller(item, NoCamera, c.speed) EXCEPT !.camera = c.camera]

\* SelectedType with the new controller made but the type not stored
SelectedTypeNotStored(cameraControllerType, item) == cameraControllerType

\* cameraControllerType after the two Selectable items: the branch that
\* makes the trackball stores 0, the one that makes the first-person
\* controller stores 1
SelectedType(cameraControllerType, item) ==
  IF item = "Trackball" THEN 0
  ELSE IF item = "FirstPerson" THEN 1 ELSE cameraControllerType

\* the GUI: at most one item is clicked in a frame
Gui ==
  /\ pc = "gui"
  /\ \E item \in {"none", "Trackball", "FirstPerson"} :
       /\ gui' = [gui EXCEPT !.clicked = item,
                             !.cameraControllerType = SelectedType(@, item)]
       /\ ctrl' = IF item = "none" THEN ctrl ELSE GuiSelect(ctrl, item)
  /\ hist' = [hist EXCEPT !.phases = Append(@, "gui")]
  /\ pc' = Then("gui")
  /\ UNCHANGED <<args, model, gpu, win, shouldClose, camera, stack, trace, upd, ret, light>>

\* keyCallback closing the window when Escape goes down
keyCallbackOnPress(flag, key, action) ==
  IF key = "ESCAPE" /\ action = "PRESS" THEN TRUE ELSE flag

\* keyCallback: the window's close flag once GLFW has delivered a key event
keyCallback(flag, key, action) ==
  IF key = "ESCAPE" /\ action = "RELEASE" THEN TRUE ELSE flag

\* the key event a glfwPollEvents may deliver to keyCallback
KeyEvents ==
  { [key |-> "ESCAPE", action |-> "RELEASE"], [key |-> "ESCAPE", action |-> "PRESS"],
    [key |-> "W", action |-> "RELEASE"] }

\* glfwPollEvents: the window state changes, keyCallback is called if a key
\* event is waiting, and ImGui decides whether it wants the mouse or the
\* keyboard; the click the GUI code of this iteration saw is used up
PollEvents ==
  /\ pc = "poll"
  /\ \E w \in AppWindows, focus \in BOOLEAN :
       /\ win' = w
       /\ gui' = [gui EXCEPT !.focus = focus, !.clicked = "none"]
  /\ \/ /\ shouldClose' = shouldClose
        /\ hist' = [hist EXCEPT !.phases = Append(@, "poll"), !.polls = @ + 1]
     \/ \E ev \in KeyEvents :
          /\ shouldClose' = keyCallback(shouldClose, ev.key, ev.action)
          /\ hist' = [hist EXCEPT !.phases = Append(@, "poll"), !.polls = @ + 1,
                                  !.escape = (ev.key = "ESCAPE" /\ ev.action = "RELEASE")]
  /\ pc' = Then("poll")
  /\ UNCHANGED <<args, model, gpu, ctrl, camera, stack, trace, upd, ret, light>>

\* if (!guiHasFocus) cameraController->update(float(ellapsedTime))
ControllerUpdate ==
  /\ pc = "update"
  /\ IF gui.focus
       THEN UNCHANGED <<ctrl, upd, hist>>
       ELSE /\ upd' = Updated(ctrl, FrameTime, Update(ctrl, win, FrameTime))
            /\ ctrl' = upd'.after
            /\ hist' = [hist EXCEPT !.phases = Append(@, "update"),
                                    !.updates = @ + 1]
  /\ pc' = Then("update")
  /\ UNCHANGED <<args, model, gpu, win, gui, shouldClose, camera, stack, trace, ret, light>>

\* swapBuffers: the frame drawn in this iteration is presented
SwapBuffers ==
  /\ pc = "swap"
  /\ hist' = [hist EXCEPT !.phases = Append(@, "present"), !.swaps = @ + 1,
                          !.endCamera = ctrl.camera]
  /\ pc' = Then("swap")
  /\ UNCHANGED <<args, model, gpu, ctrl, win, gui, shouldClose, camera, stack, trace,
                 upd, ret, light>>

\* the cameras the controllers are exercised with
UserCameras ==
  { Camera(Vec(0, 0, 5), Vec(0, 0, 0), Vec(0, 1, 0)),
    Camera(Vec(2049, 0, 0), Vec(2048, 0, 0), Vec(0, 1, 0)) }

\* the lookatArgs of the runs: nine floats eye, center, up
LookatArgs ==
  { <<2049, 0, 0,  2048, 0, 0,  0, 1, 0>>,
    <<0, 0, 5,  0, 0, 0,  1, 0, 0>> }

\* the lookatArgs of the run in the window
WindowLookatArgs == <<0, 0, 5,  0, 0, 0,  1, 0, 0>>

\* the constructor: m_hasUserCamera and m_userCamera from lookatArgs, the
\* output path and the file kept as given
ViewerApplication(lookatArgs, output, loadOk, file) ==
  [lookatArgs    |-> lookatArgs,
   hasUserCamera |-> lookatArgs # <<>>,
   userCamera    |-> IF lookatArgs # <<>>
                       THEN Camera(Vec(lookatArgs[1], lookatArgs[2], lookatArgs[3]),
                                   Vec(lookatArgs[4], lookatArgs[5], lookatArgs[6]),
                                   Vec(lookatArgs[7], lookatArgs[8], lookatArgs[9]))
                       ELSE NoCamera,
   output        |-> output,
   loadOk        |-> loadOk,
   file          |-> file]

\* the runs: without --lookat, on either scene, the file loading or not;
\* with --lookat, rendered to an image from each lookatArgs and shown in
\* the window from one
Arguments ==
  { ViewerApplication(<<>>, output, loadOk, file) :
      output \in BOOLEAN, loadOk \in BOOLEAN, file \in Scenes }
  \cup
  { ViewerApplication(lookatArgs, TRUE, TRUE, SceneTree) : lookatArgs \in LookatArgs }
  \cup
  { ViewerApplication(WindowLookatArgs, FALSE, TRUE, SceneTree) }

NoGui == [cameraControllerType |-> 0, focus |-> FALSE, clicked |-> "none"]

Init ==
  /\ pc = "start"
  /\ args \in Arguments
  /\ model = NoModel
  /\ gpu = NoGpu
  /\ ctrl = NoController
  /\ win = NoWindow
  /\ gui = NoGui
  /\ shouldClose = FALSE
  /\ camera = NoCamera
  /\ stack = <<>>
  /\ trace = <<>>
  /\ upd = NoUpdate
  /\ hist = NoHist
  /\ ret = 0
  /\ light = FirstLight

Next ==
  \/ LoadGltfFile
  \/ SetupCamera
  \/ CreateBufferObjects
  \/ CreateVertexArrayObjects
  \/ RenderToImage
  \/ SaveImage
  \/ EnterLoop
  \/ LoopExit
  \/ FrameBegin
  \/ DrawScene
  \/ DrawNodeCall
  \/ DrawNodeReturn
  \/ DrawSceneEnd
  \/ Gui
  \/ PollEvents
  \/ ControllerUpdate
  \/ SwapBuffers

Spec == Init /\ [][Next]_vars

(***************************************************************************)
(* One update call on a controller in any state a session leaves it in:    *)
(* either variant, a button state and a last cursor position from earlier  *)
(* calls, then the window state the call reads and the elapsed time.       *)
(***************************************************************************)
Cursors == {<<100 * x, y>> : x \in 0..MaxCursor, y \in 0..MaxCursor}

MotionKeys == {"W", "S", "A", "D", "UP", "DOWN", "Q", "E"}

ModifierKeys == {"LEFT_SHIFT", "LEFT_CONTROL"}

\* the window states that matter to a controller of the given type
Windows(type) ==
  IF type = "Trackball"
    THEN [left : {FALSE}, middle : BOOLEAN, cursor : Cursors, keys : SUBSET ModifierKeys]
    ELSE [left : BOOLEAN, middle : {FALSE}, cursor : Cursors,
          keys : {k \in SUBSET MotionKeys : Cardinality(k) <= MaxKeysHeld}]

\* the controllers run() builds for SceneTree, in every cursor state, and
\* the first-person ones it builds for SceneNone, whose speed is half
Controllers ==
  { [Controller(type, cam, FMul(cameraSpeed, MaxDistance(SceneTree)))
       EXCEPT !.pressed = pressed, !.last = last] :
      type \in {"Trackball", "FirstPerson"}, cam \in UserCameras,
      pressed \in BOOLEAN, last \in Cursors }
  \cup
  { Controller("FirstPerson", cam, FMul(cameraSpeed, MaxDistance(SceneNone))) :
      cam \in UserCameras }

InitCtrl ==
  /\ pc = "events"
  /\ args = CHOOSE a \in Arguments : a.file = SceneTree /\ ~a.hasUserCamera /\ ~a.output
  /\ model = SceneTree
  /\ gpu = NoGpu
  /\ ctrl \in Controllers
  /\ win = NoWindow
  /\ gui = NoGui
  /\ shouldClose = FALSE
  /\ camera = NoCamera
  /\ stack = <<>>
  /\ trace = <<>>
  /\ upd = NoUpdate
  /\ hist = NoHist
  /\ ret = 0
  /\ light = FirstLight

\* the window state the GLFW queries of the call will read
WindowEvents ==
  /\ pc = "events"
  /\ win' \in Windows(ctrl.type)
  /\ pc' = "call"
  /\ UNCHANGED <<args, model, gpu, ctrl, gui, shouldClose, camera, stack, trace, upd,
                 hist, ret, light>>

\* update(elapsedTime)
CallUpdate ==
  /\ pc = "call"
  /\ \E elapsedTime \in {Zero, FrameTime} :
       upd' = Updated(ctrl, elapsedTime, Update(ctrl, win, elapsedTime))
  /\ ctrl' = upd'.after
  /\ pc' = "returned"
  /\ UNCHANGED <<args, model, gpu, win, gui, shouldClose, camera, stack, trace, hist,
                 ret, light>>

NextCtrl == WindowEvents \/ CallUpdate

SpecCtrl == InitCtrl /\ [][NextCtrl]_vars

(***************************************************************************)
(* The frames of the loop as a controller lives them: each iteration's     *)
(* glfwPollEvents delivers the mouse events that arrived since the last    *)
(* one, then update runs unless the GUI has the focus.  The scene draw and *)
(* a GUI in which no camera type is clicked leave the controller alone and *)
(* are one step.  hist.released is the cursor displacement made with the   *)
(* controller's button up since the last update call that ran.             *)
(***************************************************************************)
\* what the mouse can do between two polls: press or release the
\* controller's button, or move the cursor
MouseEvents ==
  [type : {"press", "release"}, to : {<<0, 0>>}] \cup [type : {"move"}, to : Cursors]

Batches == UNION { [1..n -> MouseEvents] : n \in 0..MaxEvents }

\* GLFW's window state once it has processed the events, and the
\* displacement the moves among them made with the button up
RECURSIVE Deliver(_, _, _, _)
Deliver(w, released, button, events) ==
  IF events = <<>> THEN [win |-> w, released |-> released]
  ELSE LET ev == Head(events)
       IN  IF ev.type = "move"
             THEN Deliver([w EXCEPT !.cursor = ev.to],
                          IF w[button] THEN released
                          ELSE <<released[1] + ev.to[1] - w.cursor[1],
                                 released[2] + ev.to[2] - w.cursor[2]>>,
                          button, Tail(events))
             ELSE Deliver([w EXCEPT ![button] = (ev.type = "press")], released, button,
                          Tail(events))

\* the button a controller follows
Button(c) == IF c.type = "Trackball" THEN "middle" ELSE "left"

\* glfwPollEvents, event by event
PollMouse ==
  /\ pc = "poll"
  /\ \E events \in Batches, focus \in BOOLEAN :
       LET r == Deliver(win, IF gui.focus THEN hist.released ELSE <<0, 0>>,
                        Button(ctrl), events)
       IN  /\ win' = r.win
           /\ gui' = [gui EXCEPT !.focus = focus]
           /\ hist' = [hist EXCEPT !.phases = Append(@, "poll"), !.polls = @ + 1,
                                   !.released = r.released]
  /\ pc' = Then("poll")
  /\ UNCHANGED <<args, model, gpu, ctrl, shouldClose, camera, stack, trace, upd, ret, light>>

\* drawScene and a GUI in which no camera type is clicked
DrawnNoClick ==
  /\ pc = "draw"
  /\ camera' = ctrl.camera
  /\ hist' = [hist EXCEPT !.phases = <<"draw", "gui">>]
  /\ pc' = Then("gui")
  /\ UNCHANGED <<args, model, gpu, ctrl, win, gui, shouldClose, stack, trace, upd, ret,
            light>>

InitDrag ==
  /\ pc = "loop"
  /\ args = ViewerApplication(<<>>, FALSE, TRUE, SceneTree)
  /\ model = SceneTree
  /\ gpu = NoGpu
  /\ ctrl \in {GuiSelect(FirstController(args, SceneTree), type) :
                 type \in {"Trackball", "FirstPerson"}}
  /\ win = NoWindow
  /\ gui = [NoGui EXCEPT !.cameraControllerType = IF ctrl.type = "Trackball" THEN 0 ELSE 1]
  /\ shouldClose = FALSE
  /\ camera = NoCamera
  /\ stack = <<>>
  /\ trace = <<>>
  /\ upd = NoUpdate
  /\ hist = [NoHist EXCEPT !.endCamera = ctrl.camera]
  /\ ret = 0
  /\ light = FirstLight

NextDrag == FrameBegin \/ DrawnNoClick \/ PollMouse \/ ControllerUpdate \/ SwapBuffers

SpecDrag == InitDrag /\ [][NextDrag]_vars

(***************************************************************************)
(* The offscreen render of each of a wider set of files: start-up, one     *)
(* drawScene, the image saved.  A drawNode recursion deeper than MaxDepth  *)
(* is cut off where it stands.  drawScene runs on one thread with nothing  *)
(* to wait for, so a step of it that can be taken is taken (weak fairness  *)
(* of its steps).                                                          *)
(***************************************************************************)
\* SceneTree with node 4 listing node 3, its parent, as a child: a cycle
\* below the second root
SceneCycle ==
  [SceneTree EXCEPT !.nodes[5] = Node(Translation(1,0,0), -1, <<3>>)]

\* SceneTree with node 5, which is in no scene, listing itself as a child
SceneAside ==
  [SceneTree EXCEPT !.nodes[6] = Node(Translation(5,5,5), 1, <<5>>)]

\* SceneTree with all its geometry at the one point (4,0,0)
ScenePoint ==
  [SceneTree EXCEPT !.bboxMin = Vec(4, 0, 0), !.bboxMax = Vec(4, 0, 0)]

\* SceneTree with its geometry on the vertical segment y = 0..2
SceneColumn ==
  [SceneTree EXCEPT !.bboxMin = Vec(0, 0, 0), !.bboxMax = Vec(0, 2, 0)]

\* SceneTree with no target given for the buffer view of the vertex data:
\* the loader leaves bufferView.target at 0
SceneUntargeted ==
  [SceneTree EXCEPT !.bufferViews[1].target = 0]

Files ==
  {SceneTree, SceneNone, SceneCycle, SceneAside, ScenePoint, SceneColumn, SceneUntargeted}

RenderArguments ==
  { ViewerApplication(lookatArgs, TRUE, TRUE, file) :
      lookatArgs \in {<<>>} \cup LookatArgs, file \in Files }

InitRender ==
  /\ pc = "start"
  /\ args \in RenderArguments
  /\ model = NoModel
  /\ gpu = NoGpu
  /\ ctrl = NoController
  /\ win = NoWindow
  /\ gui = NoGui
  /\ shouldClose = FALSE
  /\ camera = NoCamera
  /\ stack = <<>>
  /\ trace = <<>>
  /\ upd = NoUpdate
  /\ hist = NoHist
  /\ ret = 0
  /\ light = FirstLight

\* drawNode called while the recursion is within the depth explored
DrawNodeCallBounded == Len(stack) <= MaxDepth /\ DrawNodeCall

NextRender ==
  \/ LoadGltfFile
  \/ SetupCamera
  \/ CreateBufferObjects
  \/ CreateVertexArrayObjects
  \/ RenderToImage
  \/ DrawNodeCallBounded
  \/ DrawNodeReturn
  \/ DrawSceneEnd
  \/ SaveImage

SpecRender == InitRender /\ [][NextRender]_vars

\* the steps of a drawScene in progress
DrawSceneSteps == DrawNodeCallBounded \/ DrawNodeReturn \/ DrawSceneEnd

SpecRenderFair == SpecRender /\ WF_vars(DrawSceneSteps)

(***************************************************************************)
(* The frames of the loop with the light panel of the GUI in use: each     *)
(* frame draws the scene, one widget of the panel may be used, and the     *)
(* poll finds no event.  The shader may have either light uniform or not.  *)
(***************************************************************************)
\* what the theta and phi sliders can set: (sin theta cos phi, cos theta,
\* sin theta sin phi), here with theta = 0
LightDirections == { <<0, 1, 0>> }

\* lightColor * intensityMultiplier with the slider at 2 and at 0
LightIntensities == { <<2, 2, 2>>, <<0, 0, 0>> }

\* the light once the user has used a widget of the panel: the checkbox,
\* a direction slider (shown only while the light is not from the camera),
\* or the colour editor or the intensity slider
LightEdits(l) ==
  { [l EXCEPT !.lightFromCamera = ~@] }
  \cup { [l EXCEPT !.lightDirection = d] : d \in IF l.lightFromCamera THEN {}
                                                  ELSE LightDirections }
  \cup { [l EXCEPT !.lightIntensity = i] : i \in LightIntensities }

\* the GUI with no camera type clicked and at most one light widget used
GuiLight ==
  /\ pc = "gui"
  /\ light' \in {light} \cup LightEdits(light)
  /\ gui' = [gui EXCEPT !.clicked = "none"]
  /\ hist' = [hist EXCEPT !.phases = Append(@, "gui")]
  /\ pc' = Then("gui")
  /\ UNCHANGED <<args, model, gpu, ctrl, win, shouldClose, camera, stack, trace, upd,
                 ret>>

\* glfwPollEvents with no event waiting and ImGui wanting no input
PollIdle ==
  /\ pc = "poll"
  /\ gui' = [gui EXCEPT !.focus = FALSE, !.clicked = "none"]
  /\ hist' = [hist EXCEPT !.phases = Append(@, "poll"), !.polls = @ + 1]
  /\ pc' = Then("poll")
  /\ UNCHANGED <<args, model, gpu, ctrl, win, shouldClose, camera, stack, trace, upd,
                 ret, light>>

\* the locations glGetUniformLocation returns: -1 for a uniform the shader
\* does not have
Lights ==
  { [FirstLight EXCEPT !.lightDirectionLocation = d, !.lightIntensityLocation = i] :
      d \in {-1, FirstLight.lightDirectionLocation},
      i \in {-1, FirstLight.lightIntensityLocation} }

InitLight ==
  /\ pc = "start"
  /\ args \in { ViewerApplication(lookatArgs, FALSE, TRUE, SceneTree) :
                  lookatArgs \in {<<>>, WindowLookatArgs} }
  /\ model = NoModel
  /\ gpu = NoGpu
  /\ ctrl = NoController
  /\ win = NoWindow
  /\ gui = NoGui
  /\ shouldClose = FALSE
  /\ camera = NoCamera
  /\ stack = <<>>
  /\ trace = <<>>
  /\ upd = NoUpdate
  /\ hist = NoHist
  /\ ret = 0
  /\ light \in Lights

NextLight ==
  \/ LoadGltfFile
  \/ SetupCamera
  \/ CreateBufferObjects
  \/ CreateVertexArrayObjects
  \/ EnterLoop
  \/ FrameBegin
  \/ DrawScene
  \/ DrawNodeCall
  \/ DrawNodeReturn
  \/ DrawSceneEnd
  \/ GuiLight
  \/ PollIdle
  \/ ControllerUpdate
  \/ SwapBuffers

SpecLight == InitLight /\ [][NextLight]_vars

(***************************************************************************)
(* Properties of one update call (SpecCtrl).  upd records the call: the    *)
(* controller before and after, the cursor delta it computed, the branch   *)
(* it took, the calls it made on its camera and the value it returned;     *)
(* win is the window state it read.                                        *)
(***************************************************************************)
TrackballCalled == pc = "returned" /\ upd.kind = "Trackball"

FirstPersonCalled == pc = "returned" /\ upd.kind = "FirstPerson"

\* the three ways the claim names for a call to compute a zero cursor delta
ButtonIdle(held) ==
  \/ ~held
  \/ held /\ ~upd.before.pressed
  \/ held /\ upd.before.pressed /\ win.cursor = upd.before.last

\* C1: a trackball update whose cursor delta is (0,0) -- middle button not
\* held, the frame of the press, or held without cursor motion -- returns
\* false, whatever modifier keys are held and whatever the elapsed time.
C1_TrackballZeroDeltaReturnsFalse ==
  TrackballCalled =>
    /\ ButtonIdle(win.middle) => upd.delta = <<0, 0>>
    /\ upd.delta = <<0, 0>> => ~upd.ret /\ upd.after.camera = upd.before.camera

\* a held button without cursor motion, both modifier keys down: false
C1_Witness ==
  /\ TrackballCalled
  /\ win.middle /\ upd.before.pressed /\ win.cursor = upd.before.last
  /\ win.keys = ModifierKeys
  /\ upd.elapsedTime = FrameTime
  /\ ~upd.ret

\* C2: a first-person update returns false when none of the eight motion
\* keys is held and the left button is not held, or is held with the cursor
\* where the last snapshot left it.
C2_FirstPersonIdleReturnsFalse ==
  (/\ FirstPersonCalled
   /\ win.keys \cap MotionKeys = {}
   /\ (~win.left \/ win.cursor = upd.before.last))
    => ~upd.ret /\ upd.after.camera = upd.before.camera

C2_Witness ==
  /\ FirstPersonCalled
  /\ win.keys = {}
  /\ win.left /\ upd.before.pressed /\ win.cursor = upd.before.last
  /\ upd.before.last # <<0, 0>>
  /\ ~upd.ret

\* |eye - center| > 0
EyeOffCenter(cam) == cam.eye # cam.center

\* C3: a zoom-in step (zoom branch, positive horizontal movement) from a
\* camera with |eye - center| > 0 leaves |eye - center| > 0.
C3_ZoomInKeepsEyeOffCenter ==
  (/\ TrackballCalled
   /\ upd.op = "zoom"
   /\ upd.delta[1] > 0
   /\ EyeOffCenter(upd.before.camera))
    => EyeOffCenter(upd.after.camera)

\* the quantities the recorded first-person call accumulated
Quantities == FirstPersonQuantities(upd.before, win, upd.delta, upd.elapsedTime)

AnyNonZero(q) ==
  \/ q.truckLeft # Zero \/ q.pedestalUp # Zero \/ q.dollyIn # Zero
  \/ q.rollRightAngle # Zero \/ q.tiltDownAngle # Zero \/ q.panLeftAngle # Zero

\* C9: when any of the six quantities is non-zero, the first-person update
\* calls moveLocal(truckLeft, pedestalUp, dollyIn), rotateLocal(roll, tilt,
\* 0) and rotateWorld(pan, worldUpAxis) on the camera, in that order and
\* once each, and returns true.
C9_FirstPersonCallOrder ==
  (FirstPersonCalled /\ AnyNonZero(Quantities)) =>
    /\ upd.ret
    /\ Len(upd.calls) = 3
    /\ upd.calls[1] = [fn |-> "moveLocal", a |-> Quantities.truckLeft,
                       b |-> Quantities.pedestalUp, c |-> Quantities.dollyIn]
    /\ upd.calls[2] = [fn |-> "rotateLocal", a |-> Quantities.rollRightAngle,
                       b |-> Quantities.tiltDownAngle, c |-> Zero]
    /\ upd.calls[3] = [fn |-> "rotateWorld", a |-> Quantities.panLeftAngle,
                       axis |-> worldUpAxis]
    /\ upd.after.camera =
         RotateWorld(RotateLocal(MoveLocal(upd.before.camera, Quantities.truckLeft,
                                           Quantities.pedestalUp, Quantities.dollyIn),
                                 Quantities.rollRightAngle, Quantities.tiltDownAngle,
                                 Zero),
                     Quantities.panLeftAngle, worldUpAxis)

\* a call that moves, tilts and pans at once
C9_Witness ==
  /\ FirstPersonCalled
  /\ upd.ret
  /\ Quantities.dollyIn # Zero
  /\ Quantities.tiltDownAngle # Zero
  /\ Quantities.panLeftAngle # Zero
  /\ upd.after.camera # upd.before.camera

\* the branch the claim's priority rule names for the keys held
Priority(keys) ==
  IF "LEFT_SHIFT" \in keys THEN "pan"
  ELSE IF "LEFT_CONTROL" \in keys THEN "zoom"
  ELSE "orbit"

\* C10 as stated: with a non-zero cursor delta the trackball update performs
\* exactly one of pan, zoom, orbit, chosen by the priority pan, zoom, orbit.
C10_ExactlyOneOfThree ==
  (TrackballCalled /\ upd.delta # <<0, 0>>) =>
    /\ upd.op = Priority(win.keys)
    /\ Len(upd.calls) = 1

\* C10, amended: with a non-zero cursor delta the update pans when the pan
\* key is held, orbits when neither key is held, and with only the zoom key
\* held zooms when the delta's horizontal component is non-zero; a purely
\* vertical delta in zoom mode does nothing and returns false.  Whenever it
\* acts it makes exactly one call on the camera and returns true.
C10_OneOfThreeOrNothing ==
  (TrackballCalled /\ upd.delta # <<0, 0>>) =>
    /\ upd.op = IF Priority(win.keys) = "zoom" /\ upd.delta[1] = 0 THEN "none"
                ELSE Priority(win.keys)
    /\ upd.op = "none" => ~upd.ret /\ upd.calls = <<>>
                          /\ upd.after.camera = upd.before.camera
    /\ upd.op # "none" => upd.ret /\ Len(upd.calls) = 1
    /\ upd.op = "pan" => upd.calls[1].fn = "moveLocal"
    /\ upd.op \in {"zoom", "orbit"} => upd.calls[1].fn = "Camera"

\* only the zoom key held, the cursor moved vertically: nothing happens
C10_Witness ==
  /\ TrackballCalled
  /\ win.keys = {"LEFT_CONTROL"}
  /\ upd.delta[1] = 0 /\ upd.delta[2] # 0
  /\ upd.op = "none"
  /\ ~upd.ret

(***************************************************************************)
(* Properties of run() (Spec).  trace is what the drawScene in progress,   *)
(* or the last one, has sent to the device; hist counts what run() did.    *)
(***************************************************************************)
NodeIds(m) == 0..(Len(m.nodes) - 1)

IsRoot(m, n) == \E i \in 1..Len(RootList(m)) : RootList(m)[i] = n

Parents(m, n) ==
  {p \in NodeIds(m) : \E i \in 1..Len(At(m.nodes, p).children) :
                        At(m.nodes, p).children[i] = n}

\* n is a root or below one (the node graph is a forest)
RECURSIVE Reachable(_, _)
Reachable(m, n) == IsRoot(m, n) \/ \E p \in Parents(m, n) : Reachable(m, p)

\* the product of the local transforms from n's root down to n
RECURSIVE PathMatrix(_, _)
PathMatrix(m, n) ==
  IF IsRoot(m, n) THEN At(m.nodes, n).matrix
  ELSE MatMul(PathMatrix(m, CHOOSE p \in Parents(m, n) : TRUE), At(m.nodes, n).matrix)

\* the drawNode invocations on node n so far in this drawScene
Visits(n) == {i \in 1..Len(trace) : trace[i].op = "drawNode" /\ trace[i].node = n}

\* a drawScene has run to its end
DrawSceneDone == stack = <<>> /\ trace # <<>>

\* C4: in one drawScene, drawNode visits every node reachable from the
\* default scene's roots exactly once, and no other; the model matrix of a
\* visit is the product of the local transforms along the node's path,
\* root first: nested translations (1,0,0), (0,1,0), (0,0,1) give (1,1,1).
C4_EachNodeOncePathProduct ==
  \A n \in NodeIds(model) :
    /\ Cardinality(Visits(n)) <= 1
    /\ \A i \in Visits(n) :
         Reachable(model, n) /\ trace[i].modelMatrix = PathMatrix(model, n)
    /\ (DrawSceneDone /\ Reachable(model, n)) => Cardinality(Visits(n)) = 1
    /\ (model = SceneTree /\ n = 2) =>
         \A i \in Visits(n) : trace[i].modelMatrix = Translation(1, 1, 1)

\* the second frame's traversal is over: node 2 was drawn at (1,1,1) and
\* node 4, below the scaling node, at (2,0,0)
C4_Witness ==
  /\ DrawSceneDone
  /\ hist.frames = 2
  /\ \E i \in Visits(2) : trace[i].modelMatrix = Translation(1, 1, 1)
  /\ \E i \in Visits(4) : trace[i].modelMatrix = MatMul(Scaling(2), Translation(1, 0, 0))
  /\ Visits(5) = {}

\* the draw calls issued so far for primitive pIdx of node n's mesh
Draws(n, pIdx) ==
  {i \in 1..Len(trace) : /\ trace[i].op \in {"glDrawElements", "glDrawArrays"}
                         /\ trace[i].node = n
                         /\ trace[i].primitive = pIdx}

\* the draw call e is the one the claim prescribes for the primitive
DrawAsPrescribed(m, e, primitive) ==
  IF primitive.indices >= 0
    THEN /\ e.op = "glDrawElements"
         /\ e.mode = primitive.mode
         /\ e.count = At(m.accessors, primitive.indices).count
         /\ e.type = At(m.accessors, primitive.indices).componentType
         /\ e.offset = At(m.accessors, primitive.indices).byteOffset
                       + At(m.bufferViews,
                            At(m.accessors, primitive.indices).bufferView).byteOffset
    ELSE /\ e.op = "glDrawArrays"
         /\ e.mode = primitive.mode
         /\ e.first = 0
         /\ \E name \in DOMAIN primitive.attributes :
              e.count = At(m.accessors, primitive.attributes[name]).count

\* C5: every primitive drawn with an index accessor gets an indexed draw
\* with that accessor's count and component type at byte offset
\* accessor.byteOffset + bufferView.byteOffset; every other primitive gets a
\* non-indexed draw from vertex 0 with the count of one of its attribute
\* accessors; both with the primitive's mode; one draw per primitive.
C5_DrawCallPerPrimitive ==
  \A n \in NodeIds(model) :
    At(model.nodes, n).mesh >= 0 =>
      \A pIdx \in 0..(Len(At(model.meshes, At(model.nodes, n).mesh)) - 1) :
        /\ \A i \in Draws(n, pIdx) :
             DrawAsPrescribed(model, trace[i],
                              At(At(model.meshes, At(model.nodes, n).mesh), pIdx))
        /\ (DrawSceneDone /\ Reachable(model, n)) => Cardinality(Draws(n, pIdx)) = 1

\* node 2's mesh has been drawn: its first primitive from two vertices,
\* its second through the index accessor at byte 12 of the view at byte 136
C5_Witness ==
  /\ DrawSceneDone
  /\ \E i \in Draws(2, 0) : /\ trace[i].op = "glDrawArrays"
                            /\ trace[i].count = 2
                            /\ trace[i].mode = GL_LINES
  /\ \E i \in Draws(2, 1) : /\ trace[i].op = "glDrawElements"
                            /\ trace[i].offset = 148
                            /\ trace[i].count = 3

\* C6: a click on a camera type in the GUI, the active one included, puts
\* a newly constructed controller of that type in place whose camera has
\* the eye, center and up of the camera the replaced controller held.
C6_GuiSelectKeepsCamera ==
  (pc = Then("gui") /\ "gui" \in {hist.phases[i] : i \in 1..Len(hist.phases)}
   /\ gui.clicked # "none") =>
    /\ ctrl.type = gui.clicked
    /\ ctrl.camera.eye = hist.endCamera.eye
    /\ ctrl.camera.center = hist.endCamera.center
    /\ ctrl.camera.up = hist.endCamera.up
    /\ ~ctrl.pressed

\* Trackball is clicked again after a trackball update has moved the camera
C6_Witness ==
  /\ pc = Then("gui")
  /\ hist.frames = 3
  /\ gui.clicked = "Trackball"
  /\ upd.kind = "Trackball" /\ upd.ret
  /\ ctrl.camera = upd.after.camera
  /\ ctrl.camera # FirstController(args, model).camera

\* C7: with an output path, run() draws the scene once, offscreen, and
\* returns 0 without an iteration of the loop (no poll, no update, no
\* swap); without one, nothing is rendered offscreen.
C7_OffscreenOrLoop ==
  /\ args.output =>
       /\ hist.frames = 0 /\ hist.polls = 0 /\ hist.updates = 0 /\ hist.swaps = 0
       /\ hist.offscreen <= 1
       /\ (pc = "done" /\ model # NoModel) =>
            hist.offscreen = 1 /\ hist.phases = <<"draw">> /\ ret = 0
  /\ ~args.output => hist.offscreen = 0 /\ hist.target # "offscreen"

C7_Witness ==
  /\ args.output
  /\ pc = "done"
  /\ hist.offscreen = 1
  /\ Visits(2) # {}
  /\ ret = 0

\* the phases of the last frame, the GUI aside
Phases == SelectSeq(hist.phases, LAMBDA p : p # "gui")

FrameOver == pc = "loop" /\ hist.frames > 0

\* C8 as stated: a frame polls, then updates once, then draws once, then
\* presents, so the camera drawn is the one the frame's update produced.
C8_PollUpdateDrawPresent ==
  FrameOver =>
    /\ Phases = <<"poll", "update", "draw", "present">>
    /\ camera = upd.after.camera

\* C8, amended: a frame draws the scene once with the camera the controller
\* holds when the iteration starts, then builds the GUI, then polls, then
\* runs the controller's update once unless the GUI has the focus, then
\* presents; the camera an update produces is drawn by the next frame.
C8_DrawGuiPollUpdatePresent ==
  /\ FrameOver =>
       /\ hist.phases = IF gui.focus THEN <<"draw", "gui", "poll", "present">>
                        ELSE <<"draw", "gui", "poll", "update", "present">>
       /\ ~gui.focus => camera = upd.before.camera /\ ctrl = upd.after
  /\ (hist.target = "window" /\ pc \in {"drawing", "gui", "poll", "update", "swap"}) =>
       camera = hist.endCamera

\* a frame is over whose update moved the camera after it had been drawn
C8_Witness ==
  /\ FrameOver
  /\ hist.frames = 2
  /\ ~gui.focus
  /\ upd.ret
  /\ upd.after.camera # camera
  /\ ctrl.camera = upd.after.camera

\* C11: run() leaves the frame loop only with the window's close flag set,
\* and then returns 0; an Escape release delivered to keyCallback sets the
\* flag; once the flag is set the iteration in progress runs to its end
\* (update, swap) and no other iteration starts.
C11_LoopExitsOnCloseFlag ==
  /\ (pc = "done" /\ hist.target = "window") => shouldClose /\ ret = 0
  /\ hist.escape => shouldClose
  /\ shouldClose => pc \in {"update", "swap", "loop", "done"}
  /\ (shouldClose /\ pc = "loop") => ENABLED LoopExit /\ ~ENABLED FrameBegin

\* Escape was released during the second frame's poll and run() returned
C11_Witness ==
  /\ pc = "done"
  /\ hist.escape
  /\ hist.frames = 2
  /\ hist.phases[Len(hist.phases)] = "present"
  /\ ret = 0

\* the calls with the given name among those that set the device up
Setup(op) == {k \in 1..Len(gpu.calls) : gpu.calls[k].op = op}

\* the names a kind of call has handed out, call by call
Named(op) ==
  {<<k, i>> \in Setup(op) \X (1..Len(gpu.calls)) : i <= gpu.calls[k].n}

\* a scene draw has been started
DrawStarted == trace # <<>> \/ stack # <<>> \/ hist.offscreen > 0 \/ hist.frames > 0

\* C12: each buffer of the scene gets one handle and is uploaded to it
\* exactly once, and each vertex array is created exactly once; this
\* happens after the scene has loaded and before the first scene draw, and
\* nothing a frame of the loop or the offscreen render sends to the device
\* creates or writes a buffer or a vertex array.
C12_DeviceObjectsCreatedOnce ==
  /\ gpu # NoGpu => args.loadOk /\ model = args.file
  /\ (DrawStarted \/ pc = "ready") =>
       /\ Len(gpu.bufferObjects) = Len(model.buffers)
       /\ Cardinality(Setup("glGenBuffers")) = 1
       /\ \A i \in 1..Len(model.buffers) :
            /\ \A j \in 1..Len(model.buffers) :
                 gpu.bufferObjects[i] = gpu.bufferObjects[j] => i = j
            /\ Cardinality({k \in Setup("glBufferStorage") :
                              gpu.calls[k].buffer = gpu.bufferObjects[i]}) = 1
            /\ \A k \in Setup("glBufferStorage") :
                 gpu.calls[k].buffer = gpu.bufferObjects[i] =>
                   gpu.calls[k].size = model.buffers[i]
       /\ Cardinality(Setup("glBufferStorage")) = Len(model.buffers)
       /\ Len(gpu.vertexArrayObjects) = VaoCount(model.meshes)
       /\ \A v \in 1..Len(gpu.vertexArrayObjects) :
            Cardinality({n \in Named("glGenVertexArrays") :
                           gpu.calls[n[1]].names[n[2]] = gpu.vertexArrayObjects[v]}) = 1
       /\ Cardinality(Named("glGenVertexArrays")) = Len(gpu.vertexArrayObjects)
  /\ DrawStarted => pc \notin {"start", "camera", "buffers", "vaos", "abort"}
  /\ \A i \in 1..Len(trace) :
       trace[i].op \in {"glUniform3f", "drawNode", "glUniformMatrix4fv",
                         "glBindVertexArray", "glDrawElements", "glDrawArrays"}

\* the third frame is being drawn: two buffers uploaded once each, three
\* vertex arrays, and node 2's second primitive drawn from the third
C12_Witness ==
  /\ hist.frames = 3
  /\ pc = "drawing"
  /\ Cardinality(Setup("glBufferStorage")) = 2
  /\ Len(gpu.vertexArrayObjects) = 3
  /\ \E i \in 1..Len(trace) : trace[i].op = "glBindVertexArray" /\ trace[i].vao = 103

\* C13: when the scene file fails to load, run() returns -1 having created
\* no buffer or vertex array, constructed and updated no controller, drawn
\* nothing, and entered neither the offscreen render nor the loop.
C13_LoadFailureReturnsMinusOne ==
  ~args.loadOk =>
    /\ pc \in {"start", "done"}
    /\ pc = "done" => ret = -1
    /\ gpu = NoGpu
    /\ ctrl = NoController
    /\ upd = NoUpdate
    /\ trace = <<>> /\ stack = <<>>
    /\ hist = NoHist

\* run() has returned -1 on a file that does not load
C13_Witness ==
  /\ ~args.loadOk
  /\ pc = "done"
  /\ ret = -1
  /\ gpu.calls = <<>>

\* the first scene draw of the run has been started: camera is its camera
FirstDraw == hist.target = "offscreen" \/ (hist.frames = 1 /\ pc # "draw")

RECURSIVE PreOrder(_, _)
PreOrder(m, list) ==
  IF list = <<>> THEN <<>>
  ELSE <<Head(list)>> \o PreOrder(m, At(m.nodes, Head(list)).children)
       \o PreOrder(m, Tail(list))

\* the nodes drawNode has been invoked on so far, in order
Visited ==
  LET calls == SelectSeq(trace, LAMBDA e : e.op = "drawNode")
  IN  [i \in 1..Len(calls) |-> calls[i].node]

\* the position in trace of the last drawNode invocation at or before i
Invocation(i) ==
  CHOOSE k \in 1..i : /\ trace[k].op = "drawNode"
                       /\ \A j \in (k + 1)..i : trace[j].op # "drawNode"

\* C15: the traversal is depth-first, pre-order: the nodes are visited each
\* before its descendants, the subtrees of a node's children one after the
\* other in the order the node lists them, and a node's uniform writes and
\* all its primitives' draw calls are emitted at its own visit, before any
\* event of another node.
C15_DepthFirstPreOrder ==
  /\ Len(Visited) <= Len(PreOrder(model, RootList(model)))
  /\ Visited = SubSeq(PreOrder(model, RootList(model)), 1, Len(Visited))
  /\ DrawSceneDone => Visited = PreOrder(model, RootList(model))
  /\ \A i \in 1..Len(trace) :
       trace[i].node >= 0 =>
         /\ trace[i].node = trace[Invocation(i)].node
         /\ trace[i].op = "drawNode" =>
              IF At(model.nodes, trace[i].node).mesh >= 0
                THEN LET n == 3 + 2 * Len(At(model.meshes,
                                             At(model.nodes, trace[i].node).mesh))
                     IN  /\ Len(trace) >= i + n
                         /\ \A j \in (i + 1)..(i + n) : trace[j].op # "drawNode"
                         /\ {trace[j].op : j \in (i + 1)..(i + 3)} = {"glUniformMatrix4fv"}
                ELSE i < Len(trace) => trace[i + 1].op \in {"drawNode", "glBindVertexArray"}
                                       /\ trace[i + 1].node # trace[i].node

\* a whole traversal of the two trees: node 0, its first child's subtree
\* (1, 2), its second child 6, then the second root 3 and its child 4
C15_Witness ==
  /\ DrawSceneDone
  /\ model = SceneTree
  /\ Visited = <<0, 1, 2, 6, 3, 4>>
  /\ \E i, j \in 1..Len(trace) :
       /\ i < j
       /\ trace[i].op = "glDrawElements" /\ trace[i].node = 2
       /\ trace[j].op = "glUniformMatrix4fv" /\ trace[j].node = 6

\* the nodes drawScene itself has invoked drawNode on so far, in order
RootCalls ==
  SelectSeq(trace, LAMBDA e : e.op = "drawNode" /\ e.caller = -1)

\* C16: a drawScene invokes drawNode once for each entry of the default
\* scene's root list, in the order of the list, each time with the
\* identity as parent matrix; without a default scene it visits no node
\* and issues no draw call.
C16_RootsInOrderFromIdentity ==
  /\ model.defaultScene >= 0 =>
       /\ Len(RootCalls) <= Len(At(model.scenes, model.defaultScene))
       /\ \A i \in 1..Len(RootCalls) :
            /\ RootCalls[i].node = At(model.scenes, model.defaultScene)[i]
            /\ RootCalls[i].parentMatrix = Identity
            /\ RootCalls[i].modelMatrix = At(model.nodes, RootCalls[i].node).matrix
       /\ DrawSceneDone => Len(RootCalls) = Len(At(model.scenes, model.defaultScene))
  /\ model.defaultScene < 0 =>
       \A i \in 1..Len(trace) :
         \/ trace[i] = [op |-> "glBindVertexArray", node |-> -1, vao |-> 0]
         \/ trace[i].op = "glUniform3f"

\* the second frame's drawScene is over and has called drawNode on the two
\* roots 0 and 3, node 3 with its own scaling as model matrix
C16_Witness ==
  /\ DrawSceneDone
  /\ hist.frames = 2
  /\ Len(RootCalls) = 2
  /\ RootCalls[1].node = 0 /\ RootCalls[2].node = 3
  /\ RootCalls[2].modelMatrix = Scaling(2)

\* the state of the controller's rotate button that the recorded call read:
\* the middle button for the trackball, the left one for the first person
Held == IF upd.kind = "Trackball" THEN win.middle ELSE win.left

\* C17: in both controllers, the call that sees the rotate button go down
\* snapshots the cursor position and has delta (0,0); a later call with the
\* button still held has delta = cursor - snapshot and moves the snapshot
\* to the cursor; a call with the button up has delta (0,0) and leaves the
\* snapshot alone; after each call the pressed flag is the button's state.
C17_PressEdgeSnapshotThenDelta ==
  pc = "returned" =>
    /\ upd.after.pressed = Held
    /\ (Held /\ ~upd.before.pressed) =>
         upd.after.last = win.cursor /\ upd.delta = <<0, 0>>
    /\ (Held /\ upd.before.pressed) =>
         /\ upd.delta = <<win.cursor[1] - upd.before.last[1],
                          win.cursor[2] - upd.before.last[2]>>
         /\ upd.after.last = win.cursor
    /\ ~Held => upd.delta = <<0, 0>> /\ upd.after.last = upd.before.last

\* the first-person controller sees the left button go down with the cursor
\* away from the position it last stored
C17_Witness ==
  /\ FirstPersonCalled
  /\ win.left /\ ~upd.before.pressed
  /\ win.cursor # upd.before.last
  /\ upd.delta = <<0, 0>>
  /\ upd.after.last = win.cursor /\ upd.after.pressed

\* C18: over the frames of the loop, those in which the GUI has the focus
\* and update is skipped included, a cursor delta that an update applies to
\* the camera holds no displacement made while the controller's button was
\* up.
C18_OnlyHeldDisplacementApplied ==
  (pc = Then("update") /\ ~gui.focus /\ upd.delta # <<0, 0>> /\ upd.ret) =>
    hist.released = <<0, 0>>

\* C19: when update, of either controller, returns false, the controller's
\* camera has the eye, center and up it had before the call.
C19_FalseMeansCameraUntouched ==
  (pc = "returned" /\ ~upd.ret) =>
    /\ upd.after.camera.eye = upd.before.camera.eye
    /\ upd.after.camera.center = upd.before.camera.center
    /\ upd.after.camera.up = upd.before.camera.up
    /\ upd.calls = <<>>

\* a first-person update with a translation key held and no time elapsed:
\* speed * 0 moves nothing and the call returns false
C19_Witness ==
  /\ FirstPersonCalled
  /\ "W" \in win.keys
  /\ upd.elapsedTime = Zero
  /\ ~upd.ret
  /\ upd.after.camera = upd.before.camera

\* C20: with the pan key held and a non-zero cursor delta, the trackball
\* update calls moveLocal(horizontalMovement, 0, 0), nothing else, and
\* returns true; when only the delta's vertical component is non-zero the
\* call is moveLocal(0, 0, 0), the camera stays as it was and update still
\* returns true.
C20_PanMovesSidewaysReturnsTrue ==
  (TrackballCalled /\ "LEFT_SHIFT" \in win.keys /\ upd.delta # <<0, 0>>) =>
    /\ upd.ret
    /\ upd.calls = << [fn |-> "moveLocal", a |-> FMul(F001, FromInt(upd.delta[1])),
                       b |-> Zero, c |-> Zero] >>
    /\ upd.after.camera =
         MoveLocal(upd.before.camera, FMul(F001, FromInt(upd.delta[1])), Zero, Zero)
    /\ upd.delta[1] = 0 =>
         /\ upd.calls[1].a = Zero
         /\ upd.after.camera = upd.before.camera
    /\ upd.delta[1] # 0 =>
         /\ upd.after.camera.eye # upd.before.camera.eye
         /\ upd.after.camera.center # upd.before.camera.center

\* the pan key held, the cursor moved straight down: true, camera as before
C20_Witness ==
  /\ TrackballCalled
  /\ "LEFT_SHIFT" \in win.keys
  /\ upd.delta[1] = 0 /\ upd.delta[2] # 0
  /\ upd.ret
  /\ upd.op = "pan"
  /\ upd.after.camera = upd.before.camera

\* C21: a trackball update in zoom mode (zoom key held, pan key not) whose
\* cursor delta is purely vertical returns false; it makes no call on the
\* camera and leaves it as it was.
C21_ZoomVerticalOnlyReturnsFalse ==
  (/\ TrackballCalled
   /\ "LEFT_CONTROL" \in win.keys /\ "LEFT_SHIFT" \notin win.keys
   /\ upd.delta[1] = 0 /\ upd.delta[2] # 0)
    => /\ ~upd.ret
       /\ upd.calls = <<>>
       /\ upd.after.camera = upd.before.camera

\* the middle button held since (100,0), the cursor now at (100,1), the
\* zoom key down: the call returns false and stores the new cursor position
C21_Witness ==
  /\ TrackballCalled
  /\ win.keys = {"LEFT_CONTROL"}
  /\ upd.before.pressed /\ upd.before.last = <<100, 0>>
  /\ win.middle /\ win.cursor = <<100, 1>>
  /\ upd.delta = <<0, 1>>
  /\ ~upd.ret
  /\ upd.after.last = <<100, 1>>

\* a trackball update that zooms or orbits is being made by this step
ZoomOrOrbitStep ==
  /\ pc = "update" /\ pc' = Then("update")
  /\ ~gui.focus
  /\ ctrl.type = "Trackball"
  /\ upd'.op \in {"zoom", "orbit"}

\* C22: every trackball update that zooms or orbits leaves the camera's
\* center where it was and sets its up to the world-up axis, so that over
\* any sequence of zoom and orbit updates only the eye moves and the center
\* is the one the camera had before the sequence.
C22_ZoomAndOrbitKeepCenter ==
  [][ZoomOrOrbitStep =>
        /\ ctrl'.camera.center = ctrl.camera.center
        /\ ctrl'.camera.up = worldUpAxis
        /\ ctrl'.camera = upd'.after.camera]_vars

\* three updates in three frames: the press, an orbit, then a zoom; the eye
\* has moved twice and the center is still the first camera's
C22_Witness ==
  /\ pc = Then("update")
  /\ hist.updates = 3
  /\ upd.kind = "Trackball" /\ upd.op = "zoom"
  /\ upd.before.camera.eye # FirstController(args, model).camera.eye
  /\ ctrl.camera.eye # upd.before.camera.eye
  /\ ctrl.camera.center = FirstController(args, model).camera.center
  /\ ~HasNaN(ctrl.camera.eye)

RollKeys == {"Q", "E"}

\* speed * elapsedTime of the recorded call
Step == FMul(upd.before.speed, upd.elapsedTime)

\* what the keys plus and minus contribute to a quantity whose step is d
Contribution(plus, minus, d) ==
  IF plus \in win.keys /\ minus \notin win.keys THEN d
  ELSE IF minus \in win.keys /\ plus \notin win.keys THEN FNeg(d)
  ELSE Zero

\* C23: in a first-person update the roll is 0.001 per held roll key (E
\* positive, Q negative), whatever the elapsed time and the speed, and each
\* translation is speed * elapsedTime per held key; so with elapsedTime = 0
\* and no cursor delta the call returns true exactly when one roll key is
\* held: true with only a roll key, false with only translation keys.
C23_RollStepIsConstant ==
  FirstPersonCalled =>
    /\ upd.ret =>
         /\ upd.calls[2].fn = "rotateLocal"
         /\ upd.calls[2].a = Contribution("E", "Q", F0001)
         /\ upd.calls[1] = [fn |-> "moveLocal", a |-> Contribution("A", "D", Step),
                            b |-> Contribution("UP", "DOWN", Step),
                            c |-> Contribution("W", "S", Step)]
    /\ (upd.elapsedTime = Zero /\ upd.delta = <<0, 0>>) =>
         /\ (win.keys # {} /\ win.keys \cap RollKeys = {}) => ~upd.ret
         /\ Cardinality(win.keys \cap RollKeys) = 1 => upd.ret
         /\ upd.ret => Cardinality(win.keys \cap RollKeys) = 1

\* no time elapsed, the cursor at rest, E and W held, on the slower
\* controller: the call returns true and rolls by 0.001 without moving
C23_Witness ==
  /\ FirstPersonCalled
  /\ win.keys = {"E", "W"}
  /\ upd.elapsedTime = Zero /\ upd.delta = <<0, 0>>
  /\ upd.before.speed = FMul(cameraSpeed, MaxDistance(SceneNone))
  /\ upd.ret
  /\ upd.calls[2].a = F0001
  /\ upd.calls[1].c = Zero
  /\ upd.after.camera.eye = upd.before.camera.eye

\* the draw calls issued so far in this drawScene
DrawCalls == SelectSeq(trace, LAMBDA e : e.op \in {"glDrawElements", "glDrawArrays"})

\* the primitives of the meshes of a list of nodes, a node counted each time
\* it is listed
RECURSIVE PrimitiveCount(_, _)
PrimitiveCount(m, nodes) ==
  IF nodes = <<>> THEN 0
  ELSE (IF At(m.nodes, Head(nodes)).mesh >= 0
          THEN Len(At(m.meshes, At(m.nodes, Head(nodes)).mesh)) ELSE 0)
       + PrimitiveCount(m, Tail(nodes))

\* the drawNode invocations made so far by the invocation on node n
CalledBy(n) == SelectSeq(trace, LAMBDA e : e.op = "drawNode" /\ e.caller = n)

\* C24: in a drawScene the draw calls number the sum, over the visits of
\* nodes that have a mesh, of the mesh's primitive count; a node without a
\* mesh sends no uniform and no draw call, and its children are visited all
\* the same, in its order, with its composed transform as parent matrix.
C24_DrawCountAndMeshlessNodes ==
  /\ Len(DrawCalls) = PrimitiveCount(model, Visited)
  /\ \A i \in 1..Len(trace) :
       trace[i].op = "drawNode" =>
         LET node == At(model.nodes, trace[i].node)
             kids == CalledBy(trace[i].node)
         IN  /\ node.mesh < 0 =>
                  \A j \in 1..Len(trace) :
                    trace[j].node = trace[i].node => trace[j].op = "drawNode"
             /\ Len(kids) <= Len(node.children)
             /\ \A k \in 1..Len(kids) :
                  /\ kids[k].node = node.children[k]
                  /\ kids[k].parentMatrix = trace[i].modelMatrix
                  /\ kids[k].modelMatrix =
                       MatMul(trace[i].modelMatrix, At(model.nodes, kids[k].node).matrix)
             /\ DrawSceneDone => Len(kids) = Len(node.children)

\* the offscreen drawScene of the two trees is over: five draw calls for
\* six visits, none for nodes 0 and 4, and node 0's two children visited
\* with its translation (1,0,0) as parent matrix
C24_Witness ==
  /\ DrawSceneDone
  /\ hist.target = "offscreen"
  /\ Len(Visited) = 6
  /\ Len(DrawCalls) = 5
  /\ Draws(0, 0) = {} /\ Draws(4, 0) = {}
  /\ Len(CalledBy(0)) = 2
  /\ CalledBy(0)[2].node = 6
  /\ CalledBy(0)[2].parentMatrix = Translation(1, 0, 0)
  /\ CalledBy(0)[2].modelMatrix = Translation(1, 0, 2)

(***************************************************************************)
(* Properties of the offscreen render of each file (SpecRender).           *)
(***************************************************************************)
\* the nodes at most k child links below the nodes of a set
RECURSIVE Below(_, _, _)
Below(m, nodes, k) ==
  IF k = 0 THEN nodes
  ELSE Below(m, nodes \cup UNION { {At(m.nodes, n).children[i] :
                                      i \in 1..Len(At(m.nodes, n).children)} :
                                   n \in nodes }, k - 1)

Kids(m, n) == {At(m.nodes, n).children[i] : i \in 1..Len(At(m.nodes, n).children)}

Roots(m) == {RootList(m)[i] : i \in 1..Len(RootList(m))}

\* a node that drawScene reaches from a root is below itself
CycleReachable(m) ==
  \E n \in Below(m, Roots(m), Len(m.nodes)) : n \in Below(m, Kids(m, n), Len(m.nodes))

\* the nodes of the drawNode invocations in progress, outermost first
OnStack == [i \in 1..(Len(stack) - 1) |-> stack[i + 1].node]

\* C25: on a node graph with no cycle reachable from the scene's roots every
\* drawScene comes to its end, after one drawNode invocation per path from
\* a root; with such a cycle drawScene never ends: nothing stops
\* the recursion, which is always able to call drawNode again or to return
\* to an invocation that is, as deep as the model follows it.
C25_TerminatesIffNoCycle ==
  /\ (pc = "drawing" /\ ~CycleReachable(model)) ~> (pc = "save")
  /\ [](~CycleReachable(model) => Len(Visited) <= Len(PreOrder(model, RootList(model))))
  /\ [](CycleReachable(model) =>
          /\ pc \notin {"save", "done"}
          /\ (pc = "drawing" /\ Len(stack) <= MaxDepth) =>
               ENABLED DrawNodeCall \/ ENABLED DrawNodeReturn
          /\ ~ENABLED DrawSceneEnd)

\* the cycle 3 > 4 > 3 has been entered for the second time: node 3 is on
\* the stack twice and has been drawn twice, its second model matrix the
\* first composed with the cycle's transforms once more
C25_Witness ==
  /\ model = SceneCycle
  /\ pc = "drawing"
  /\ OnStack = <<3, 4, 3, 4>>
  /\ Visited = <<0, 1, 2, 6, 3, 4, 3, 4>>
  /\ Cardinality(Draws(3, 0)) = 2
  /\ ENABLED DrawNodeCall

\* the vertex arrays are on the device
VaosCreated == pc \in {"ready", "drawing", "save", "done"} /\ gpu # NoGpu

\* the calls of createVertexArrayObjects that bound a vertex array to
\* configure it for primitive p of mesh m
Configured(m, p) ==
  {k \in Setup("glBindVertexArray") :
     gpu.calls[k].vao # 0 /\ gpu.calls[k].mesh = m /\ gpu.calls[k].primitive = p}

\* the (mesh, primitive) pairs of the scene, 0-based
Pairs ==
  {<<m, p>> \in (0..(Len(model.meshes) - 1)) \X (0..(VaoCount(model.meshes) - 1)) :
     p < Len(At(model.meshes, m))}

\* C26: createVertexArrayObjects makes one vertex array per (mesh,
\* primitive) pair and records for mesh m the range that begins at the
\* number of primitives of the meshes before m and counts m's primitives;
\* the handle at range.begin + p was configured for the pair (m, p) and for
\* no other, and it is the handle drawNode binds to draw primitive p of a
\* node whose mesh is m.
C26_OneVertexArrayPerPrimitive ==
  VaosCreated =>
    /\ Len(gpu.vertexArrayObjects) = Cardinality(Pairs)
    /\ Len(gpu.meshToVertexArrays) = Len(model.meshes)
    /\ \A m \in 0..(Len(model.meshes) - 1) :
         At(gpu.meshToVertexArrays, m) =
           [begin |-> VaoCount(SubSeq(model.meshes, 1, m)),
            count |-> Len(At(model.meshes, m))]
    /\ \A pair \in Pairs :
         LET vao == At(gpu.vertexArrayObjects,
                       At(gpu.meshToVertexArrays, pair[1]).begin + pair[2])
         IN  /\ Cardinality(Configured(pair[1], pair[2])) = 1
             /\ \A k \in Configured(pair[1], pair[2]) : gpu.calls[k].vao = vao
             /\ \A other \in Pairs :
                  (\E k \in Configured(other[1], other[2]) : gpu.calls[k].vao = vao)
                    => other = pair
    /\ \A i \in 1..Len(trace) :
         (trace[i].op = "glBindVertexArray" /\ trace[i].node >= 0) =>
           /\ i < Len(trace)
           /\ trace[i + 1].op \in {"glDrawElements", "glDrawArrays"}
           /\ trace[i + 1].node = trace[i].node
           /\ \E k \in Configured(At(model.nodes, trace[i].node).mesh,
                                   trace[i + 1].primitive) :
                gpu.calls[k].vao = trace[i].vao

\* node 2's mesh has been drawn: mesh 1's range begins after mesh 0's one
\* primitive, and its second primitive was drawn with the third handle
C26_Witness ==
  /\ VaosCreated
  /\ pc = "drawing"
  /\ At(gpu.meshToVertexArrays, 1) = [begin |-> 1, count |-> 2]
  /\ \E i \in 1..(Len(trace) - 1) :
       /\ trace[i].op = "glBindVertexArray" /\ trace[i].node = 2
       /\ trace[i].vao = At(gpu.vertexArrayObjects, 2)
       /\ trace[i + 1].op = "glDrawElements" /\ trace[i + 1].primitive = 1

(***************************************************************************)
(* Properties of the frames with the light panel in use (SpecLight).       *)
(***************************************************************************)
\* the writes of a light uniform in this drawScene
LightWrites(location) ==
  {i \in 1..Len(trace) : trace[i].op = "glUniform3f" /\ trace[i].location = location}

\* C27: a drawScene writes each light uniform once if the shader has it
\* and not at all if its location is negative, and before anything it
\* sends for a node; with the light attached to the camera the direction
\* written is (0,0,1) as it stands, whatever the camera and the stored
\* light direction; otherwise it is the stored direction taken through the
\* camera's view matrix; the intensity written is the stored intensity.
C27_LightUniformsFirst ==
  (pc = "drawing" \/ trace # <<>>) =>
    /\ Cardinality(LightWrites("uLightDirection")) =
         IF light.lightDirectionLocation >= 0 THEN 1 ELSE 0
    /\ Cardinality(LightWrites("uLightIntensity")) =
         IF light.lightIntensityLocation >= 0 THEN 1 ELSE 0
    /\ \A i, j \in 1..Len(trace) :
         (trace[i].op = "glUniform3f" /\ trace[j].op # "glUniform3f") => i < j
    /\ pc = "drawing" =>
         /\ \A i \in LightWrites("uLightDirection") :
              trace[i].value =
                IF light.lightFromCamera
                  THEN [direction |-> <<0, 0, 1>>, transform |-> "none", view |-> NoCamera]
                  ELSE [direction |-> light.lightDirection,
                        transform |-> "normalize(viewMatrix * d)", view |-> camera]
         /\ \A i \in LightWrites("uLightIntensity") :
              trace[i].value.direction = light.lightIntensity

\* the third frame is being drawn from the --lookat camera with the light
\* attached to it, after the direction slider set (0,1,0): the shader has no
\* intensity uniform, and (0,0,1) is written before node 1's draw call
C27_Witness ==
  /\ pc = "drawing"
  /\ hist.frames = 3
  /\ args.lookatArgs # <<>>
  /\ light.lightFromCamera
  /\ light.lightDirection = <<0, 1, 0>>
  /\ light.lightIntensityLocation < 0
  /\ LightWrites("uLightDirection") = {1}
  /\ trace[1].value.direction = <<0, 0, 1>>
  /\ Draws(1, 0) # {}

(***************************************************************************)
(* Properties of the start-up on the files of SpecRender.                  *)
(***************************************************************************)
\* C28: with no --lookat camera, the camera run() computes from the scene
\* bounds has its eye away from its center, for every bounding box whose
\* minimum is component-wise at most its maximum.
C28_DefaultEyeAwayFromCenter ==
  (/\ pc = "buffers"
   /\ ~args.hasUserCamera
   /\ \A i \in 1..3 : ~FLt(model.bboxMax[i], model.bboxMin[i]))
    => ctrl.camera.eye # ctrl.camera.center

(***************************************************************************)
(* Properties of the GUI's camera type (Spec).                             *)
(***************************************************************************)
\* C29: whenever run() has a controller, the GUI's cameraControllerType is
\* 0 exactly if the controller is a TrackballCameraController and 1 exactly
\* if it is a FirstPersonCameraController: at start-up and after every
\* selection made in the GUI.
C29_IndicatorMatchesController ==
  ctrl # NoController =>
    /\ gui.cameraControllerType = 0 <=> ctrl.type = "Trackball"
    /\ gui.cameraControllerType = 1 <=> ctrl.type = "FirstPerson"

\* in the second frame the user has clicked "Trackball" again, after the
\* first-person controller selected in the first frame was updated
C29_Witness ==
  /\ pc = Then("gui")
  /\ hist.frames = 2
  /\ upd.kind = "FirstPerson"
  /\ gui.clicked = "Trackball"
  /\ ctrl.type = "Trackball"
  /\ gui.cameraControllerType = 0

\* the input the viewer assumes: no node is below itself, every index is in
\* range, and a primitive without an index accessor has an attribute
WellFormed(m) ==
  LET InRange(i, seq) == 0 <= i /\ i < Len(seq)
      AccessorOk(a) ==
        /\ InRange(a, m.accessors)
        /\ InRange(At(m.accessors, a).bufferView, m.bufferViews)
        /\ InRange(At(m.bufferViews, At(m.accessors, a).bufferView).buffer, m.buffers)
  IN  /\ \A n \in 0..(Len(m.nodes) - 1) :
           /\ n \notin Below(m, Kids(m, n), Len(m.nodes))
           /\ Kids(m, n) \subseteq 0..(Len(m.nodes) - 1)
           /\ At(m.nodes, n).mesh < Len(m.meshes)
      /\ \A i \in 1..Len(m.scenes) : \A j \in 1..Len(m.scenes[i]) :
           InRange(m.scenes[i][j], m.nodes)
      /\ m.defaultScene < Len(m.scenes)
      /\ \A i \in 1..Len(m.meshes) : \A j \in 1..Len(m.meshes[i]) :
           LET primitive == m.meshes[i][j]
           IN  /\ \A name \in DOMAIN primitive.attributes :
                    AccessorOk(primitive.attributes[name])
               /\ primitive.indices >= 0 => AccessorOk(primitive.indices)
               /\ primitive.indices < 0 => DOMAIN primitive.attributes # {}

\* C30: on every file that is well formed in that sense,
\* createVertexArrayObjects meets no assertion failure: each POSITION,
\* NORMAL or TEXCOORD_0 accessor it binds has a buffer view with target
\* GL_ARRAY_BUFFER and each index accessor one with target
\* GL_ELEMENT_ARRAY_BUFFER.
C30_NoAssertionFailure ==
  WellFormed(model) => pc # "abort"

====
